---------------------------- MODULE Spec2Model ----------------------------
(***************************************************************************)
(* Model of the metal life-cycle-assessment engine: the stage calculators  *)
(* and Combination Engines of aluminium, copper, steel, tin and lithium.   *)
(*                                                                         *)
(* Numbers.  Python floats are modelled by exact fixed-point integers;     *)
(* every quantity has a unit, written next to it:                          *)
(*   request quantities (kg, L, kWh, MJ, m3)        unit 1                 *)
(*   request fractions and factors (recovery, ...)  unit 1e-2              *)
(*   ore_grade_percent                              unit 1 (percent)       *)
(*   yield_metal_t                                  unit 1e-7 t            *)
(*   energy_MJ                                      unit 1e-1 MJ           *)
(*   water_m3, total_material_input_kg              unit 1                 *)
(*   waste_solid_kg                                 unit 1e-4 kg           *)
(*   waste_hazardous_kg                             unit 1e-6 kg           *)
(*   co2_kg, ch4_kg                                 unit 1e-7 kg           *)
(*   n2o_kg                                         unit 1e-8 kg           *)
(*   nox_kg                                         unit 1e-6 kg           *)
(*   so2_kg                                         unit 1e-4 kg           *)
(*   gwp_kgCO2e and the chain's GWP total           wide number, see W7    *)
(*   avoided_primary_co2e_kg                        wide number times 100  *)
(* A factor of the source is written in the unit that makes each formula   *)
(* exact, so no rounding happens anywhere in the model.                    *)
(***************************************************************************)
EXTENDS Integers, FiniteSets, Sequences, TLC

(***************************************************************************)
(* Bounds of the modelled request space.                                   *)
(***************************************************************************)
\* largest request quantity (kg, L, kWh, MJ, m3) a field is given
MaxQty == 2
\* number of fields of a seed request that one request changes
MaxEdits == 2

(***************************************************************************)
(* JSON values of a request field: the key is absent, null, a string that  *)
(* is not a number, or a number.                                           *)
(***************************************************************************)
Absent == [t |-> "absent", v |-> 0]
Null == [t |-> "null", v |-> 0]
Bad == [t |-> "bad", v |-> 0]
Num(n) == [t |-> "num", v |-> n]

\* dict.get(key, default)
Get(d, k, default) == IF d[k].t = "absent" THEN default ELSE d[k]
\* dict.get(key): None when the key is absent
Get1(d, k) == IF d[k].t = "absent" THEN Null ELSE d[k]
\* key in dict
Has(d, k) == d[k].t # "absent"
\* Python truthiness of a JSON value: None and 0 are falsy, a non-empty string is truthy
Truthy(x) == x.t = "bad" \/ (x.t = "num" /\ x.v # 0)
\* x or y
Or(x, y) == IF Truthy(x) THEN x ELSE y
\* float(x) raises TypeError on None and ValueError on a non-numeric string
FloatRaises(x) == x.t \in {"null", "bad"}
\* the value float(x) returns when it does not raise
Float(x) == x.v
\* x is not None
NotNone(x) == x.t # "null"
\* max(0.0, x)
Max0(x) == IF x > 0 THEN x ELSE 0

(***************************************************************************)
(* Wide numbers: the global-warming scores add terms from 1e-8 kg to       *)
(* kilograms, so they are kept as k * 1e-4 kg + f * 1e-10 kg,              *)
(* 0 <= f < 10^6 (a normal form: equal values are equal records).          *)
(***************************************************************************)
WNorm(k, f) == [k |-> k + (f \div 1000000), f |-> f % 1000000]
WZero == [k |-> 0, f |-> 0]
\* a value given in units of 1e-7 kg
W7(x) == WNorm(x \div 1000, (x % 1000) * 1000)
\* a value given in units of 1e-8 kg
W8(x) == WNorm(x \div 10000, (x % 10000) * 100)
\* a value given in kg
WKg(x) == [k |-> x * 10000, f |-> 0]
WAdd(a, b) == WNorm(a.k + b.k, a.f + b.f)
\* a wide number times a small integer
WScale(a, n) == WNorm(a.k * n, a.f * n)
WLeq(a, b) == a.k < b.k \/ (a.k = b.k /\ a.f <= b.f)

(***************************************************************************)
(* Conversion and emission factors.                                        *)
(***************************************************************************)
\* copper_calculators.py; aluminium, steel and tin import the same names
KWH_TO_MJ == 36                     \* 3.6 MJ/kWh, unit 1e-1
L_DIESEL_MJ == 386                  \* 38.6 MJ/L, unit 1e-1
L_HEAVYOIL_MJ == 409                \* 40.9 MJ/L, unit 1e-1
KG_COAL_MJ == 260                   \* 26.0 MJ/kg, unit 1e-1
GRID_CO2_KG_PER_KWH_GLOBAL == 48    \* 0.48 kg/kWh, unit 1e-2
DIESEL_CO2_KG_PER_L == 26800000     \* 2.68 kg/L, unit 1e-7
HEAVYOIL_CO2_KG_PER_L == 31100000   \* 3.11 kg/L, unit 1e-7
NG_CO2_KG_PER_MJ == 561000          \* 0.0561 kg/MJ, unit 1e-7
COAL_CO2_KG_PER_KG == 24200000      \* 2.42 kg/kg, unit 1e-7
NOX_PER_MJ == 15                    \* 0.00015 kg/MJ applied to energy in 1e-1 MJ, unit 1e-6
\* Names that aluminium_calculators.py and tin_calculators.py import from
\* aluminium_constants.py, which defines them under other names or not at all;
\* the model gives each the value of the constant it stands for.
GRID_CO2_KG_PER_KWH == 48           \* as GRID_CO2_KG_PER_KWH_GLOBAL, unit 1e-2
DIESEL_CH4_KG_PER_L == 1200         \* CH4_PER_L_DIESEL = 0.00012, unit 1e-7
DIESEL_N2O_KG_PER_L == 500          \* N2O_PER_L_DIESEL = 0.000005, unit 1e-8
PM_PER_DIESEL_L == 500              \* 0.0005 kg/L (used for NOx as a placeholder), unit 1e-6
NOX_PER_GAS_MJ == 150               \* as NOX_PER_MJ, per MJ of gas, unit 1e-6
\* steel_calculators.py
EF_ELECTRICITY_CO2_INDIA == 82      \* 0.82 kg/kWh, unit 1e-2
\* lithium_calculators.py
EF_ELECTRICITY_GLOBAL == 48         \* 0.48 kg/kWh, unit 1e-2
EF_DIESEL_CO2_PER_L == 26800000     \* 2.68, unit 1e-7
EF_COAL_CO2_PER_KG == 24200000      \* 2.42, unit 1e-7
EF_GAS_CO2_PER_MJ == 560000         \* 0.056, unit 1e-7
MJ_PER_KWH == 36                    \* 3.6, unit 1e-1
MJ_PER_L_DIESEL == 386              \* 38.6, unit 1e-1
MJ_PER_KG_COAL == 293               \* 29.3, unit 1e-1


(***************************************************************************)
(* Request keys of the modelled request space.  A stage block is a         *)
(* function from Keys to JSON values; a key outside Keys is absent from    *)
(* every modelled request (the perfluorocarbon fields, anode_carbon_kg,    *)
(* land_area_m2, the leaching and runoff factors, metal_input), so the     *)
(* terms the calculators derive from them are 0 or their default.          *)
(***************************************************************************)
Keys ==
    {"ore_input_kg", "ore_grade_percent", "process_recovery",
     "auxiliary_materials_kg", "electricity_kWh", "fuel_diesel_L",
     "fuel_heavyOil_L", "fuel_coal_kg", "fuel_naturalGas_MJ", "freshwater_m3",
     "process_water_m3", "water_returned_m3", "co_product_outputs_total_kg",
     "grid_co2_factor", "S_content", "acid_recovery_factor",
     "process_CO2_direct", "fraction_alumina", "fraction_metal",
     "reduction_efficiency", "anode_materials", "impurity_fraction",
     "anode_residue_kg", "CO2_proc_smelting", "slag_factor",
     "hazardous_fraction", "process_CO2_per_kg_ore", "so2_kg_override",
     "metal_input_kg", "process_yield", "lubricants_kg",
     "cooling_water_returned", "scrap_kg", "loss_fraction"}

\* the empty dict {}
EmptyBlock == [k \in Keys |-> Absent]
\* bool(d) of a dict: it has at least one key
NonEmpty(d) == \E k \in Keys : Has(d, k)

(***************************************************************************)
(* StageResult.  keys is the set of keys the returned dict holds (the      *)
(* emission names stand for the keys of its "emissions" dict); a field     *)
(* whose key is not in keys is 0 here and does not exist in the code.      *)
(* raised: the calculator raised an exception instead of returning.        *)
(***************************************************************************)
StageResult(ks, y, tm, e, w, ws, wh, co2, ch4, n2o, nox, so2, gwp) ==
    [raised |-> FALSE, keys |-> ks, yield_metal_t |-> y,
     total_material_input_kg |-> tm, energy_MJ |-> e, water_m3 |-> w,
     waste_solid_kg |-> ws, waste_hazardous_kg |-> wh, co2_kg |-> co2,
     ch4_kg |-> ch4, n2o_kg |-> n2o, nox_kg |-> nox, so2_kg |-> so2,
     gwp_kgCO2e |-> gwp]

\* the empty dict {} as a breakdown entry
EmptyResult == StageResult({}, 0, 0, 0, 0, 0, 0, 0, 0, 0, 0, 0, WZero)
\* the calculator raised
RaisedResult == [EmptyResult EXCEPT !.raised = TRUE]

\* float(inputs.get(k, d) or d), the copper module's reading of a field
GetOr(d, k, default) == Or(Get(d, k, Num(default)), Num(default))

(***************************************************************************)
(* copper_calculators.py                                                   *)
(***************************************************************************)
\* one term of _sum_energy_mj_from_inputs: counted when the key is present and not None
copper_energy_term(inputs, k, factor) ==
    IF Has(inputs, k) /\ NotNone(inputs[k]) THEN Float(inputs[k]) * factor ELSE 0

copper_sum_energy_raises(inputs) ==
    \E k \in {"electricity_kWh", "fuel_diesel_L", "fuel_heavyOil_L",
              "fuel_coal_kg", "fuel_naturalGas_MJ"} :
        inputs[k].t = "bad"

copper_sum_energy_mj_from_inputs(inputs) ==
    IF ~NonEmpty(inputs) THEN 0
    ELSE copper_energy_term(inputs, "electricity_kWh", KWH_TO_MJ)
         + copper_energy_term(inputs, "fuel_diesel_L", L_DIESEL_MJ)
         + copper_energy_term(inputs, "fuel_heavyOil_L", L_HEAVYOIL_MJ)
         + copper_energy_term(inputs, "fuel_coal_kg", KG_COAL_MJ)
         + copper_energy_term(inputs, "fuel_naturalGas_MJ", 10)

\* the grid factor a copper stage uses
copper_grid_factor(inputs) ==
    GetOr(inputs, "grid_co2_factor", GRID_CO2_KG_PER_KWH_GLOBAL)

\* the CO2 of the stage's electricity, unit 1e-7 kg
copper_electricity_co2(inputs) ==
    IF Has(inputs, "electricity_kWh") /\ NotNone(inputs["electricity_kWh"])
    THEN Float(inputs["electricity_kWh"]) * Float(copper_grid_factor(inputs)) * 100000
    ELSE 0

\* the stage efficiency compute_copper_mining uses
copper_mining_eta(inputs) == GetOr(inputs, "process_recovery", 90)

compute_copper_mining(inputs) ==
    LET ore_input_kg == GetOr(inputs, "ore_input_kg", 0)
        ore_grade_percent == GetOr(inputs, "ore_grade_percent", 0)
        eta_stage == copper_mining_eta(inputs)
        aux == GetOr(inputs, "auxiliary_materials_kg", 0)
        freshwater_m3 == GetOr(inputs, "freshwater_m3", 0)
        process_water_m3 == GetOr(inputs, "process_water_m3", 0)
        water_returned_m3 == GetOr(inputs, "water_returned_m3", 0)
        grid_factor == copper_grid_factor(inputs)
        diesel == GetOr(inputs, "fuel_diesel_L", 0)
        heavyoil == GetOr(inputs, "fuel_heavyOil_L", 0)
        gas == GetOr(inputs, "fuel_naturalGas_MJ", 0)
        coal == GetOr(inputs, "fuel_coal_kg", 0)
        s_content == GetOr(inputs, "S_content", 0)
        acid_recovery_factor == GetOr(inputs, "acid_recovery_factor", 85)
        floats == {ore_input_kg, ore_grade_percent, eta_stage, aux,
                   freshwater_m3, process_water_m3, water_returned_m3,
                   grid_factor, diesel, heavyoil, gas, coal, s_content,
                   acid_recovery_factor}
        mwf == Float(ore_grade_percent)
        yield_metal_t == Float(ore_input_kg) * mwf * Float(eta_stage)
        energy_mj == copper_sum_energy_mj_from_inputs(inputs)
        waste_solid_kg ==
            Max0(Float(ore_input_kg) * (100 - mwf) * (100 - Float(eta_stage)))
        emissions_co2 ==
            copper_electricity_co2(inputs)
            + Float(diesel) * DIESEL_CO2_KG_PER_L
            + Float(heavyoil) * HEAVYOIL_CO2_KG_PER_L
            + Float(gas) * NG_CO2_KG_PER_MJ
            + Float(coal) * COAL_CO2_KG_PER_KG
        emissions_so2 ==
            Float(s_content) * Float(ore_input_kg) * 2
            * (100 - Float(acid_recovery_factor))
        emissions_nox == energy_mj * NOX_PER_MJ
        emissions_ch4 == energy_mj
        emissions_n2o == energy_mj
        gwp == WAdd(W7(emissions_co2),
                    WAdd(W7(emissions_ch4 * 25), W8(emissions_n2o * 298)))
    IN  IF (\E x \in floats : FloatRaises(x)) \/ copper_sum_energy_raises(inputs)
        THEN RaisedResult
        ELSE StageResult(
                 {"yield_metal_t", "total_material_input_kg", "energy_MJ",
                  "water_m3", "waste_solid_kg", "co2_kg", "so2_kg", "nox_kg",
                  "ch4_kg", "n2o_kg", "gwp_kgCO2e"},
                 yield_metal_t,
                 Float(ore_input_kg) + Float(aux),
                 energy_mj,
                 Float(freshwater_m3) + Float(process_water_m3)
                     - Float(water_returned_m3),
                 waste_solid_kg, 0, emissions_co2, emissions_ch4,
                 emissions_n2o, emissions_nox, emissions_so2, gwp)

\* the process CO2 per tonne of copper compute_copper_extraction uses
copper_process_co2(inputs) == GetOr(inputs, "CO2_proc_smelting", 400)

compute_copper_extraction(inputs) ==
    LET ore_input_kg == GetOr(inputs, "ore_input_kg", 0)
        fraction_metal == GetOr(inputs, "fraction_metal", 0)
        reduction_efficiency == GetOr(inputs, "reduction_efficiency", 95)
        aux == GetOr(inputs, "auxiliary_materials_kg", 0)
        impurity_fraction == GetOr(inputs, "impurity_fraction", 0)
        anode_residue_kg == GetOr(inputs, "anode_residue_kg", 0)
        grid_factor == copper_grid_factor(inputs)
        coal == GetOr(inputs, "fuel_coal_kg", 0)
        gas == GetOr(inputs, "fuel_naturalGas_MJ", 0)
        process_co2 == copper_process_co2(inputs)
        s_content == GetOr(inputs, "S_content", 0)
        acid_recovery_factor == GetOr(inputs, "acid_recovery_factor", 85)
        process_water_m3 == GetOr(inputs, "process_water_m3", 0)
        floats == {ore_input_kg, fraction_metal, reduction_efficiency, aux,
                   impurity_fraction, anode_residue_kg, grid_factor, coal, gas,
                   process_co2, s_content, acid_recovery_factor,
                   process_water_m3}
        yield_metal_t ==
            Float(ore_input_kg) * Float(fraction_metal)
            * Float(reduction_efficiency)
        energy_mj == copper_sum_energy_mj_from_inputs(inputs)
        waste_solid_kg ==
            Float(ore_input_kg) * Float(impurity_fraction) * 100
            + Float(anode_residue_kg) * 10000
        emissions_co2 ==
            copper_electricity_co2(inputs)
            + Float(coal) * COAL_CO2_KG_PER_KG
            + Float(gas) * NG_CO2_KG_PER_MJ
            + Float(process_co2) * yield_metal_t
        emissions_so2 ==
            Float(s_content) * Float(ore_input_kg) * 2
            * (100 - Float(acid_recovery_factor))
        emissions_nox == energy_mj * NOX_PER_MJ
    IN  IF (\E x \in floats : FloatRaises(x)) \/ copper_sum_energy_raises(inputs)
        THEN RaisedResult
        ELSE StageResult(
                 {"yield_metal_t", "total_material_input_kg", "energy_MJ",
                  "waste_solid_kg", "waste_hazardous_kg", "co2_kg", "so2_kg",
                  "nox_kg", "gwp_kgCO2e"},
                 yield_metal_t,
                 Float(ore_input_kg) + Float(aux),
                 energy_mj, 0, waste_solid_kg, waste_solid_kg * 5,
                 emissions_co2, 0, 0, emissions_nox, emissions_so2,
                 W7(emissions_co2))

compute_copper_manufacturing(inputs) ==
    LET metal_input_kg == GetOr(inputs, "metal_input_kg", 0)
        process_yield == GetOr(inputs, "process_yield", 100)
        aux == GetOr(inputs, "auxiliary_materials_kg", 0)
        freshwater_m3 == GetOr(inputs, "freshwater_m3", 0)
        process_water_m3 == GetOr(inputs, "process_water_m3", 0)
        cooling == GetOr(inputs, "cooling_water_returned", 0)
        grid_factor == copper_grid_factor(inputs)
        gas == GetOr(inputs, "fuel_naturalGas_MJ", 0)
        scrap == GetOr(inputs, "scrap_kg", 0)
        floats == {metal_input_kg, process_yield, aux, freshwater_m3,
                   process_water_m3, cooling, grid_factor, gas, scrap}
        emissions_co2 ==
            copper_electricity_co2(inputs) + Float(gas) * NG_CO2_KG_PER_MJ
    IN  IF (\E x \in floats : FloatRaises(x)) \/ copper_sum_energy_raises(inputs)
        THEN RaisedResult
        ELSE StageResult(
                 {"yield_metal_t", "total_material_input_kg", "energy_MJ",
                  "water_m3", "waste_solid_kg", "co2_kg", "nox_kg",
                  "gwp_kgCO2e"},
                 Float(metal_input_kg) * Float(process_yield) * 100,
                 Float(metal_input_kg) + Float(aux),
                 copper_sum_energy_mj_from_inputs(inputs),
                 Float(freshwater_m3) + Float(process_water_m3) - Float(cooling),
                 Float(scrap) * 10000, 0, emissions_co2, 0, 0,
                 Float(gas) * NOX_PER_MJ * 10, 0, W7(emissions_co2))

(***************************************************************************)
(* aluminium_calculators.py.  Fields are read as float(inputs.get(k, d)):  *)
(* a null or a non-numeric value raises.                                   *)
(***************************************************************************)
\* inputs.get(k, d) with a numeric default d
GetD(d, k, default) == Get(d, k, Num(default))

\* one term of the sum: counted when the key is present
plain_energy_term(inputs, k, factor) ==
    IF Has(inputs, k) THEN Float(inputs[k]) * factor ELSE 0

aluminium_sum_energy_raises(inputs) ==
    \E k \in {"electricity_kWh", "fuel_diesel_L", "fuel_heavyOil_L",
              "fuel_coal_kg", "fuel_naturalGas_MJ"} :
        FloatRaises(inputs[k])

aluminium_sum_energy_mj_from_inputs(inputs) ==
    plain_energy_term(inputs, "electricity_kWh", KWH_TO_MJ)
    + plain_energy_term(inputs, "fuel_diesel_L", L_DIESEL_MJ)
    + plain_energy_term(inputs, "fuel_heavyOil_L", L_HEAVYOIL_MJ)
    + plain_energy_term(inputs, "fuel_coal_kg", KG_COAL_MJ)
    + plain_energy_term(inputs, "fuel_naturalGas_MJ", 10)

\* the CO2 of the stage's electricity in aluminium and tin, unit 1e-7 kg
grid_electricity_co2(inputs) ==
    plain_energy_term(inputs, "electricity_kWh", GRID_CO2_KG_PER_KWH * 100000)

compute_mining(inputs) ==
    LET ore_input_kg == GetD(inputs, "ore_input_kg", 0)
        ore_grade_percent == GetD(inputs, "ore_grade_percent", 0)
        process_recovery == GetD(inputs, "process_recovery", 100)
        aux == GetD(inputs, "auxiliary_materials_kg", 0)
        freshwater_m3 == GetD(inputs, "freshwater_m3", 0)
        process_water_m3 == GetD(inputs, "process_water_m3", 0)
        water_returned_m3 == GetD(inputs, "water_returned_m3", 0)
        co_product == GetD(inputs, "co_product_outputs_total_kg", 0)
        diesel == GetD(inputs, "fuel_diesel_L", 0)
        heavyoil == GetD(inputs, "fuel_heavyOil_L", 0)
        gas == GetD(inputs, "fuel_naturalGas_MJ", 0)
        floats == {ore_input_kg, ore_grade_percent, process_recovery, aux,
                   freshwater_m3, process_water_m3, water_returned_m3,
                   co_product, diesel, heavyoil, gas}
        yield_metal_t ==
            Float(ore_input_kg) * Float(ore_grade_percent)
            * Float(process_recovery)
        waste_solid_kg ==
            Max0(Float(ore_input_kg) * 10000 - yield_metal_t
                 - Float(co_product) * 10000)
        emissions_co2 ==
            grid_electricity_co2(inputs)
            + Float(diesel) * DIESEL_CO2_KG_PER_L
            + Float(heavyoil) * HEAVYOIL_CO2_KG_PER_L
            + Float(gas) * NG_CO2_KG_PER_MJ
        emissions_ch4 == Float(diesel) * DIESEL_CH4_KG_PER_L
        emissions_n2o == Float(diesel) * DIESEL_N2O_KG_PER_L
        gwp == WAdd(W7(emissions_co2),
                    WAdd(W7(emissions_ch4 * 28), W8(emissions_n2o * 265)))
    IN  IF (\E x \in floats : FloatRaises(x))
           \/ aluminium_sum_energy_raises(inputs)
        THEN RaisedResult
        ELSE StageResult(
                 {"yield_metal_t", "total_material_input_kg", "energy_MJ",
                  "water_m3", "waste_solid_kg", "co2_kg", "ch4_kg", "n2o_kg",
                  "nox_kg", "gwp_kgCO2e"},
                 yield_metal_t,
                 Float(ore_input_kg) + Float(aux),
                 aluminium_sum_energy_mj_from_inputs(inputs),
                 Float(freshwater_m3) + Float(process_water_m3)
                     - Float(water_returned_m3),
                 waste_solid_kg, 0, emissions_co2, emissions_ch4,
                 emissions_n2o, Float(diesel) * PM_PER_DIESEL_L, 0, gwp)

compute_extraction(inputs) ==
    LET ore_input_kg == GetD(inputs, "ore_input_kg", 0)
        fraction_alumina == GetD(inputs, "fraction_alumina", 0)
        reduction_efficiency == GetD(inputs, "reduction_efficiency", 100)
        anode_materials == GetD(inputs, "anode_materials", 0)
        impurity_fraction == GetD(inputs, "impurity_fraction", 0)
        anode_residue_kg == GetD(inputs, "anode_residue_kg", 0)
        coal == GetD(inputs, "fuel_coal_kg", 0)
        gas == GetD(inputs, "fuel_naturalGas_MJ", 0)
        floats == {ore_input_kg, fraction_alumina, reduction_efficiency,
                   anode_materials, impurity_fraction, anode_residue_kg, coal,
                   gas}
        emissions_co2 ==
            grid_electricity_co2(inputs)
            + Float(coal) * COAL_CO2_KG_PER_KG
            + Float(gas) * NG_CO2_KG_PER_MJ
    IN  IF (\E x \in floats : FloatRaises(x))
           \/ aluminium_sum_energy_raises(inputs)
        THEN RaisedResult
        ELSE StageResult(
                 {"yield_metal_t", "total_material_input_kg", "energy_MJ",
                  "waste_solid_kg", "co2_kg", "nox_kg", "gwp_kgCO2e"},
                 Float(ore_input_kg) * Float(fraction_alumina)
                     * Float(reduction_efficiency),
                 Float(ore_input_kg) + Float(anode_materials),
                 aluminium_sum_energy_mj_from_inputs(inputs), 0,
                 Float(ore_input_kg) * Float(impurity_fraction) * 100
                     + Float(anode_residue_kg) * 10000,
                 0, emissions_co2, 0, 0, Float(gas) * NOX_PER_GAS_MJ, 0,
                 W7(emissions_co2))

compute_manufacturing(inputs) ==
    LET metal_input_kg == GetD(inputs, "metal_input_kg", 0)
        process_yield == GetD(inputs, "process_yield", 100)
        lubricants == GetD(inputs, "lubricants_kg", 0)
        freshwater_m3 == GetD(inputs, "freshwater_m3", 0)
        process_water_m3 == GetD(inputs, "process_water_m3", 0)
        cooling == GetD(inputs, "cooling_water_returned", 0)
        gas == GetD(inputs, "fuel_naturalGas_MJ", 0)
        aux == GetD(inputs, "auxiliary_materials_kg", 0)
        scrap == GetD(inputs, "scrap_kg", 0)
        floats == {metal_input_kg, process_yield, lubricants, freshwater_m3,
                   process_water_m3, cooling, gas, aux, scrap}
        emissions_co2 ==
            grid_electricity_co2(inputs) + Float(gas) * NG_CO2_KG_PER_MJ
    IN  IF (\E x \in floats : FloatRaises(x))
           \/ aluminium_sum_energy_raises(inputs)
        THEN RaisedResult
        ELSE StageResult(
                 {"yield_metal_t", "total_material_input_kg", "energy_MJ",
                  "water_m3", "waste_solid_kg", "co2_kg", "nox_kg",
                  "gwp_kgCO2e"},
                 Float(metal_input_kg) * Float(process_yield) * 100,
                 Float(metal_input_kg) + Float(lubricants),
                 aluminium_sum_energy_mj_from_inputs(inputs),
                 Float(freshwater_m3) + Float(process_water_m3) - Float(cooling),
                 Float(scrap) * 10000, 0, emissions_co2, 0, 0,
                 Float(gas) * NOX_PER_GAS_MJ, 0, W7(emissions_co2))

(***************************************************************************)
(* steel_calculators.py                                                    *)
(***************************************************************************)
steel_sum_energy_raises(inputs) ==
    \E k \in {"electricity_kWh", "fuel_diesel_L", "fuel_coal_kg",
              "fuel_naturalGas_MJ"} :
        FloatRaises(inputs[k])

steel_sum_energy_mj_from_inputs(inputs) ==
    IF ~NonEmpty(inputs) THEN 0
    ELSE plain_energy_term(inputs, "electricity_kWh", KWH_TO_MJ)
         + plain_energy_term(inputs, "fuel_diesel_L", L_DIESEL_MJ)
         + plain_energy_term(inputs, "fuel_coal_kg", KG_COAL_MJ)
         + plain_energy_term(inputs, "fuel_naturalGas_MJ", 10)

\* the CO2 of the stage's electricity in steel, unit 1e-7 kg
steel_electricity_co2(inputs) ==
    Float(GetD(inputs, "electricity_kWh", 0)) * EF_ELECTRICITY_CO2_INDIA * 100000

\* waste_solid_kg of compute_steel_mining, unit 1e-4 kg
steel_mining_waste(ore, mwf, eta) == ore * (100 - mwf) * (100 - eta)

compute_steel_mining(inputs) ==
    LET ore_input_kg == GetD(inputs, "ore_input_kg", 0)
        ore_grade_percent == GetD(inputs, "ore_grade_percent", 0)
        eta == GetD(inputs, "process_recovery", 95)
        aux == GetD(inputs, "auxiliary_materials_kg", 0)
        freshwater_m3 == GetD(inputs, "freshwater_m3", 0)
        process_water_m3 == GetD(inputs, "process_water_m3", 0)
        electricity == GetD(inputs, "electricity_kWh", 0)
        diesel == GetD(inputs, "fuel_diesel_L", 0)
        coal == GetD(inputs, "fuel_coal_kg", 0)
        floats == {ore_input_kg, ore_grade_percent, eta, aux, freshwater_m3,
                   process_water_m3, electricity, diesel, coal}
        energy_mj == steel_sum_energy_mj_from_inputs(inputs)
        emissions_co2 ==
            steel_electricity_co2(inputs)
            + Float(diesel) * DIESEL_CO2_KG_PER_L
            + Float(coal) * COAL_CO2_KG_PER_KG
        gwp == WAdd(W7(emissions_co2),
                    WAdd(W7(energy_mj * 25), W8(energy_mj * 298)))
    IN  IF (\E x \in floats : FloatRaises(x)) \/ steel_sum_energy_raises(inputs)
        THEN RaisedResult
        ELSE StageResult(
                 {"yield_metal_t", "total_material_input_kg", "energy_MJ",
                  "water_m3", "waste_solid_kg", "co2_kg", "ch4_kg", "n2o_kg",
                  "nox_kg", "gwp_kgCO2e"},
                 Float(ore_input_kg) * Float(ore_grade_percent) * Float(eta),
                 Float(ore_input_kg) + Float(aux),
                 energy_mj,
                 Float(freshwater_m3) + Float(process_water_m3),
                 steel_mining_waste(Float(ore_input_kg),
                                    Float(ore_grade_percent), Float(eta)),
                 0, emissions_co2, energy_mj, energy_mj,
                 energy_mj * NOX_PER_MJ, 0, gwp)

\* the direct process CO2 of compute_steel_extraction, unit 1e-7 kg: the
\* supplied value times 1000 when it is truthy, else 0.5 kg per kg of ore
steel_process_co2_direct(inputs, ore) ==
    IF Truthy(Get1(inputs, "process_CO2_direct"))
    THEN Float(inputs["process_CO2_direct"]) * 1000 * 100000
    ELSE ore * 5000000

\* the slag factor compute_steel_extraction uses on a (lower-cased) route
\* "eaf" in route, for the lower-cased routes of the model
contains_eaf(route) == route \in {"eaf", "scrap-eaf"}

\* a slag factor chosen by comparing the route with 'eaf' for equality
steel_slag_factor_exact(inputs, route) ==
    IF route = "eaf" THEN GetD(inputs, "slag_factor", 12)
    ELSE GetD(inputs, "slag_factor", 25)

\* the slag factor by route: BF-BOF larger, EAF smaller
steel_slag_factor(inputs, route) ==
    IF route # "" /\ contains_eaf(route) THEN GetD(inputs, "slag_factor", 12)
    ELSE GetD(inputs, "slag_factor", 25)

compute_steel_extraction(inputs, route) ==
    LET ore_input_kg == GetD(inputs, "ore_input_kg", 0)
        eta == Get(inputs, "reduction_efficiency",
                   GetD(inputs, "process_recovery", 95))
        aux == GetD(inputs, "auxiliary_materials_kg", 0)
        slag_factor == steel_slag_factor(inputs, route)
        electricity == GetD(inputs, "electricity_kWh", 0)
        coal == GetD(inputs, "fuel_coal_kg", 0)
        gas == GetD(inputs, "fuel_naturalGas_MJ", 0)
        floats == {ore_input_kg, eta, aux, slag_factor, electricity, coal, gas}
        energy_mj == steel_sum_energy_mj_from_inputs(inputs)
        waste_solid_kg == Float(ore_input_kg) * Float(slag_factor) * 100
        emissions_co2 ==
            steel_electricity_co2(inputs)
            + Float(coal) * COAL_CO2_KG_PER_KG
            + Float(gas) * NG_CO2_KG_PER_MJ
            + steel_process_co2_direct(inputs, Float(ore_input_kg))
        gwp == WAdd(W7(emissions_co2),
                    WAdd(W7(energy_mj * 25), W8(energy_mj * 298)))
    IN  IF (\E x \in floats : FloatRaises(x))
           \/ steel_sum_energy_raises(inputs)
           \/ inputs["process_CO2_direct"].t = "bad"
        THEN RaisedResult
        ELSE StageResult(
                 {"yield_metal_t", "total_material_input_kg", "energy_MJ",
                  "waste_solid_kg", "waste_hazardous_kg", "co2_kg", "ch4_kg",
                  "n2o_kg", "nox_kg", "gwp_kgCO2e"},
                 Float(ore_input_kg) * Float(eta) * 100,
                 Float(ore_input_kg) + Float(aux),
                 energy_mj, 0, waste_solid_kg, waste_solid_kg * 5,
                 emissions_co2, energy_mj, energy_mj, energy_mj * NOX_PER_MJ,
                 0, gwp)

compute_steel_manufacturing(inputs) ==
    LET metal_input_kg == Get(inputs, "metal_input_kg",
                              GetD(inputs, "ore_input_kg", 0))
        eta == GetD(inputs, "process_yield", 98)
        aux == GetD(inputs, "auxiliary_materials_kg", 0)
        freshwater_m3 == GetD(inputs, "freshwater_m3", 0)
        process_water_m3 == GetD(inputs, "process_water_m3", 0)
        scrap == GetD(inputs, "scrap_kg", 0)
        electricity == GetD(inputs, "electricity_kWh", 0)
        gas == GetD(inputs, "fuel_naturalGas_MJ", 0)
        floats == {metal_input_kg, eta, aux, freshwater_m3, process_water_m3,
                   scrap, electricity, gas}
        energy_mj == steel_sum_energy_mj_from_inputs(inputs)
        emissions_co2 ==
            steel_electricity_co2(inputs) + Float(gas) * NG_CO2_KG_PER_MJ
    IN  IF (\E x \in floats : FloatRaises(x)) \/ steel_sum_energy_raises(inputs)
        THEN RaisedResult
        ELSE StageResult(
                 {"yield_metal_t", "total_material_input_kg", "energy_MJ",
                  "water_m3", "waste_solid_kg", "co2_kg", "nox_kg",
                  "gwp_kgCO2e"},
                 Float(metal_input_kg) * Float(eta) * 100,
                 Float(metal_input_kg) + Float(aux),
                 energy_mj,
                 Float(freshwater_m3) + Float(process_water_m3),
                 Float(scrap) * 10000, 0, emissions_co2, 0, 0,
                 energy_mj * NOX_PER_MJ, 0, W7(emissions_co2))

(***************************************************************************)
(* tin_calculators.py                                                      *)
(***************************************************************************)
tin_sum_energy_raises(inputs) ==
    \E k \in {"electricity_kWh", "fuel_diesel_L", "fuel_coal_kg",
              "fuel_naturalGas_MJ"} :
        FloatRaises(inputs[k])

tin_sum_energy_mj_from_inputs(inputs) ==
    plain_energy_term(inputs, "electricity_kWh", KWH_TO_MJ)
    + plain_energy_term(inputs, "fuel_diesel_L", L_DIESEL_MJ)
    + plain_energy_term(inputs, "fuel_coal_kg", KG_COAL_MJ)
    + plain_energy_term(inputs, "fuel_naturalGas_MJ", 10)

compute_mining_tin(inputs) ==
    LET ore_input_kg == GetD(inputs, "ore_input_kg", 0)
        ore_grade_percent == GetD(inputs, "ore_grade_percent", 0)
        eta == GetD(inputs, "process_recovery", 85)
        aux == GetD(inputs, "auxiliary_materials_kg", 0)
        freshwater_m3 == GetD(inputs, "freshwater_m3", 0)
        process_water_m3 == GetD(inputs, "process_water_m3", 0)
        water_returned_m3 == GetD(inputs, "water_returned_m3", 0)
        diesel == GetD(inputs, "fuel_diesel_L", 0)
        gas == GetD(inputs, "fuel_naturalGas_MJ", 0)
        floats == {ore_input_kg, ore_grade_percent, eta, aux, freshwater_m3,
                   process_water_m3, water_returned_m3, diesel, gas}
        emissions_co2 ==
            grid_electricity_co2(inputs)
            + Float(diesel) * DIESEL_CO2_KG_PER_L
            + Float(gas) * NG_CO2_KG_PER_MJ
        emissions_ch4 == Float(diesel) * DIESEL_CH4_KG_PER_L
        emissions_n2o == Float(diesel) * DIESEL_N2O_KG_PER_L
        gwp == WAdd(W7(emissions_co2),
                    WAdd(W7(emissions_ch4 * 28), W8(emissions_n2o * 265)))
    IN  IF (\E x \in floats : FloatRaises(x)) \/ tin_sum_energy_raises(inputs)
        THEN RaisedResult
        ELSE StageResult(
                 {"yield_metal_t", "total_material_input_kg", "energy_MJ",
                  "water_m3", "waste_solid_kg", "co2_kg", "ch4_kg", "n2o_kg",
                  "nox_kg", "gwp_kgCO2e"},
                 Float(ore_input_kg) * Float(ore_grade_percent) * Float(eta),
                 Float(ore_input_kg) + Float(aux),
                 tin_sum_energy_mj_from_inputs(inputs),
                 Float(freshwater_m3) + Float(process_water_m3)
                     - Float(water_returned_m3),
                 Max0(Float(ore_input_kg) * (100 - Float(ore_grade_percent))
                      * (100 - Float(eta))),
                 0, emissions_co2, emissions_ch4, emissions_n2o,
                 Float(diesel) * PM_PER_DIESEL_L, 0, gwp)

compute_extraction_tin(inputs) ==
    LET ore_input_kg == GetD(inputs, "ore_input_kg", 0)
        eta == Get(inputs, "reduction_efficiency",
                   GetD(inputs, "process_recovery", 95))
        aux == GetD(inputs, "auxiliary_materials_kg", 0)
        slag_factor == GetD(inputs, "slag_factor", 25)
        hazardous_fraction == GetD(inputs, "hazardous_fraction", 5)
        coal == GetD(inputs, "fuel_coal_kg", 0)
        gas == GetD(inputs, "fuel_naturalGas_MJ", 0)
        diesel == GetD(inputs, "fuel_diesel_L", 0)
        process_co2 == GetD(inputs, "process_CO2_per_kg_ore", 30)
        so2 == GetD(inputs, "so2_kg_override", 0)
        floats == {ore_input_kg, eta, aux, slag_factor, hazardous_fraction,
                   coal, gas, diesel, process_co2, so2}
        waste_solid_kg == Float(ore_input_kg) * Float(slag_factor) * 100
        emissions_co2 ==
            grid_electricity_co2(inputs)
            + Float(coal) * COAL_CO2_KG_PER_KG
            + Float(gas) * NG_CO2_KG_PER_MJ
            + Float(process_co2) * Float(ore_input_kg) * 100000
    IN  IF (\E x \in floats : FloatRaises(x)) \/ tin_sum_energy_raises(inputs)
        THEN RaisedResult
        ELSE StageResult(
                 {"yield_metal_t", "total_material_input_kg", "energy_MJ",
                  "waste_solid_kg", "waste_hazardous_kg", "co2_kg", "so2_kg",
                  "nox_kg", "gwp_kgCO2e"},
                 Float(ore_input_kg) * Float(eta) * 100,
                 Float(ore_input_kg) + Float(aux),
                 tin_sum_energy_mj_from_inputs(inputs), 0,
                 waste_solid_kg, waste_solid_kg * Float(hazardous_fraction),
                 emissions_co2, 0, 0, Float(gas) * NOX_PER_GAS_MJ,
                 Float(so2) * 10000, W7(emissions_co2))

compute_manufacturing_tin(inputs) ==
    LET metal_input_kg == Get(inputs, "metal_input_kg",
                              GetD(inputs, "ore_input_kg", 0))
        process_yield == GetD(inputs, "process_yield", 98)
        aux == GetD(inputs, "auxiliary_materials_kg", 0)
        freshwater_m3 == GetD(inputs, "freshwater_m3", 0)
        process_water_m3 == GetD(inputs, "process_water_m3", 0)
        loss_fraction == Get1(inputs, "loss_fraction")
        gas == GetD(inputs, "fuel_naturalGas_MJ", 0)
        floats == {metal_input_kg, process_yield, aux, freshwater_m3,
                   process_water_m3, gas}
        \* metal_input_kg * loss_fraction, the default being 0.005
        waste_solid_kg ==
            IF Has(inputs, "loss_fraction")
            THEN Float(metal_input_kg) * Float(loss_fraction) * 100
            ELSE Float(metal_input_kg) * 50
        emissions_co2 ==
            grid_electricity_co2(inputs) + Float(gas) * NG_CO2_KG_PER_MJ
    IN  IF (\E x \in floats : FloatRaises(x)) \/ tin_sum_energy_raises(inputs)
           \/ (Has(inputs, "loss_fraction") /\ FloatRaises(loss_fraction))
        THEN RaisedResult
        ELSE StageResult(
                 {"yield_metal_t", "total_material_input_kg", "energy_MJ",
                  "water_m3", "waste_solid_kg", "co2_kg", "nox_kg",
                  "gwp_kgCO2e"},
                 Float(metal_input_kg) * Float(process_yield) * 100,
                 Float(metal_input_kg) + Float(aux),
                 tin_sum_energy_mj_from_inputs(inputs),
                 Float(freshwater_m3) + Float(process_water_m3),
                 waste_solid_kg, 0, emissions_co2, 0, 0,
                 Float(gas) * NOX_PER_GAS_MJ, 0, W7(emissions_co2))

(***************************************************************************)
(* lithium_calculators.py                                                  *)
(***************************************************************************)
\* _safe_float(x): 0.0 for None and for what float() rejects
safe_float(x) == IF x.t = "num" THEN x.v ELSE 0

sum_energy_mj(inputs) ==
    safe_float(GetD(inputs, "electricity_kWh", 0)) * MJ_PER_KWH
    + safe_float(GetD(inputs, "fuel_naturalGas_MJ", 0)) * 10
    + safe_float(GetD(inputs, "fuel_coal_kg", 0)) * MJ_PER_KG_COAL
    + safe_float(GetD(inputs, "fuel_diesel_L", 0)) * MJ_PER_L_DIESEL

\* _co2_from_energy, unit 1e-7 kg; ef_electricity in 1e-2 kg/kWh
co2_from_energy(inputs, ef_electricity) ==
    safe_float(GetD(inputs, "electricity_kWh", 0)) * ef_electricity * 100000
    + safe_float(GetD(inputs, "fuel_naturalGas_MJ", 0)) * EF_GAS_CO2_PER_MJ
    + safe_float(GetD(inputs, "fuel_coal_kg", 0)) * EF_COAL_CO2_PER_KG
    + safe_float(GetD(inputs, "fuel_diesel_L", 0)) * EF_DIESEL_CO2_PER_L

\* the stage defaults compute_combined_lca_lithium builds
lithium_eta_stage(stage) == IF stage = "manufacturing" THEN 98 ELSE 90

\* yield_metal_t of _calc_stage_common; grade = 0 stands for MWF = None
lithium_yield(ore, grade, eta) ==
    IF ore # 0 /\ grade # 0 THEN ore * grade * eta
    ELSE IF ore # 0 THEN ore * eta * 100
    ELSE 0

\* waste_solid_kg of _calc_stage_common, unit 1e-4 kg
lithium_waste(ore, grade, eta, aux) ==
    IF ore # 0 /\ grade # 0 THEN ore * (100 - grade) * (100 - eta)
    ELSE IF ore # 0 THEN ore * (100 - eta) * 100
    ELSE aux * 5000

calc_stage_common(stage_inputs, stage) ==
    LET ore_input_kg == safe_float(GetD(stage_inputs, "ore_input_kg", 0))
        fuel_coal_kg == safe_float(GetD(stage_inputs, "fuel_coal_kg", 0))
        freshwater_m3 == safe_float(GetD(stage_inputs, "freshwater_m3", 0))
        process_water_m3 == safe_float(GetD(stage_inputs, "process_water_m3", 0))
        auxiliary_materials_kg ==
            safe_float(GetD(stage_inputs, "auxiliary_materials_kg", 0))
        ore_grade_percent ==
            safe_float(Or(Get1(stage_inputs, "ore_grade_percent"), Num(0)))
        eta == lithium_eta_stage(stage)
        energy_MJ == sum_energy_mj(stage_inputs)
        waste_solid_kg ==
            lithium_waste(ore_input_kg, ore_grade_percent, eta,
                          auxiliary_materials_kg)
        process_co2_direct ==
            safe_float(GetD(stage_inputs, "process_CO2_direct", 0))
    IN  StageResult(
            {"yield_metal_t", "total_material_input_kg", "energy_MJ",
             "water_m3", "waste_solid_kg", "waste_hazardous_kg", "co2_kg",
             "ch4_kg", "n2o_kg", "nox_kg", "so2_kg"},
            lithium_yield(ore_input_kg, ore_grade_percent, eta),
            ore_input_kg + auxiliary_materials_kg,
            energy_MJ,
            freshwater_m3 + process_water_m3,
            waste_solid_kg, waste_solid_kg * 5,
            co2_from_energy(stage_inputs, EF_ELECTRICITY_GLOBAL)
                + process_co2_direct * 100000,
            energy_MJ, energy_MJ, energy_MJ * 15, fuel_coal_kg * 400, WZero)

(***************************************************************************)
(* Requests and ChainResults.                                              *)
(* A payload holds top (the request-level fields), route, stages (the      *)
(* keys its "inputs" dict holds) and inputs (the stage blocks; an absent   *)
(* block reads as {}, which is what inputs.get(stage, {}) returns).        *)
(***************************************************************************)
Stages == {"mining", "extraction", "manufacturing"}
Metals == {"aluminium", "copper", "steel", "tin", "lithium"}
TopKeys == {"recycling_rate", "primary_route_gwp_kgCO2e"}
Routes == {"none", "primary", "EAF", "Scrap-EAF"}

\* (payload.get("route") or "").lower()
route_lower(route) ==
    CASE route = "EAF" -> "eaf"
      [] route = "Scrap-EAF" -> "scrap-eaf"
      [] route = "none" -> ""
      [] OTHER -> route

\* res.get(k, 0.0) on a StageResult or on {}
ResGet(res, k) == IF k \in res.keys THEN res[k] ELSE 0
\* res.get("gwp_kgCO2e", 0.0)
ResGwp(res) == IF "gwp_kgCO2e" \in res.keys THEN res.gwp_kgCO2e ELSE WZero

ChainResult(m, e, f, gwp, energy, water, rate, avoided, lcia_keys, acid, eutro, resource) ==
    [raised |-> FALSE,
     breakdown |-> [mining |-> m, extraction |-> e, manufacturing |-> f],
     totals |-> [gwp_kgCO2e |-> gwp, energy_MJ |-> energy, water_m3 |-> water],
     circularity |-> [recycling_rate |-> rate,
                      avoided_primary_co2e_kg |-> avoided],
     lcia_keys |-> lcia_keys,
     lcia_results |-> [global_warming_kg_co2e |-> gwp,
                       acidification_kg_so2e |-> acid,
                       eutrophication_kg_po4e |-> eutro,
                       water_depletion_m3 |-> water,
                       resource_depletion_kg_resource_eq |-> resource]]

\* the engine raised: there is no ChainResult
RaisedChain ==
    [ChainResult(EmptyResult, EmptyResult, EmptyResult, WZero, 0, 0, 0, WZero,
                 {}, 0, 0, 0) EXCEPT !.raised = TRUE]

\* the totals loop of the aluminium, copper, steel and tin engines: {} is skipped
total_gwp_of(m, e, f) == WAdd(ResGwp(m), WAdd(ResGwp(e), ResGwp(f)))
total_energy_of(m, e, f) ==
    ResGet(m, "energy_MJ") + ResGet(e, "energy_MJ") + ResGet(f, "energy_MJ")
total_water_of(m, e, f) ==
    ResGet(m, "water_m3") + ResGet(e, "water_m3") + ResGet(f, "water_m3")

\* a baseline that would vanish above a recycling rate of one half, which no
\* engine of the repository applies
capped_primary_route_gwp(top, total_gwp) ==
    IF Float(GetD(top, "recycling_rate", 0)) > 50 THEN WZero
    ELSE IF Has(top, "primary_route_gwp_kgCO2e")
    THEN WKg(Float(top["primary_route_gwp_kgCO2e"]))
    ELSE total_gwp

\* float(payload.get("primary_route_gwp_kgCO2e", total_gwp)), as a wide number
plain_primary_route_gwp(top, total_gwp) ==
    IF Has(top, "primary_route_gwp_kgCO2e")
    THEN WKg(Float(top["primary_route_gwp_kgCO2e"]))
    ELSE total_gwp

\* the circularity block of the aluminium, steel and tin engines
plain_circularity_raises(top) ==
    FloatRaises(GetD(top, "recycling_rate", 0))
    \/ FloatRaises(GetD(top, "primary_route_gwp_kgCO2e", 0))

compute_combined_lca(payload) ==
    LET mining_inputs == payload.inputs["mining"]
        extraction_inputs == payload.inputs["extraction"]
        manufacturing_inputs == payload.inputs["manufacturing"]
        mining_res ==
            IF NonEmpty(mining_inputs) THEN compute_mining(mining_inputs)
            ELSE EmptyResult
        extraction_res ==
            IF NonEmpty(extraction_inputs)
            THEN compute_extraction(extraction_inputs)
            ELSE EmptyResult
        manufacturing_res ==
            IF NonEmpty(manufacturing_inputs)
            THEN compute_manufacturing(manufacturing_inputs)
            ELSE EmptyResult
        total_gwp == total_gwp_of(mining_res, extraction_res, manufacturing_res)
        recycling_rate == Float(GetD(payload.top, "recycling_rate", 0))
    IN  IF mining_res.raised \/ extraction_res.raised
           \/ manufacturing_res.raised \/ plain_circularity_raises(payload.top)
        THEN RaisedChain
        ELSE ChainResult(
                 mining_res, extraction_res, manufacturing_res, total_gwp,
                 total_energy_of(mining_res, extraction_res, manufacturing_res),
                 total_water_of(mining_res, extraction_res, manufacturing_res),
                 recycling_rate,
                 WScale(plain_primary_route_gwp(payload.top, total_gwp),
                        recycling_rate),
                 {}, 0, 0, 0)

\* float(payload.get("primary_route_gwp_kgCO2e", total_gwp) or total_gwp)
copper_primary_route_gwp(top, total_gwp) ==
    IF Truthy(Get1(top, "primary_route_gwp_kgCO2e"))
    THEN WKg(Float(top["primary_route_gwp_kgCO2e"]))
    ELSE total_gwp

compute_combined_lca_copper(payload) ==
    LET mining_inputs == payload.inputs["mining"]
        extraction_inputs == payload.inputs["extraction"]
        manufacturing_inputs == payload.inputs["manufacturing"]
        mining_res ==
            IF NonEmpty(mining_inputs) THEN compute_copper_mining(mining_inputs)
            ELSE EmptyResult
        extraction_res ==
            IF NonEmpty(extraction_inputs)
            THEN compute_copper_extraction(extraction_inputs)
            ELSE EmptyResult
        manufacturing_res ==
            IF NonEmpty(manufacturing_inputs)
            THEN compute_copper_manufacturing(manufacturing_inputs)
            ELSE EmptyResult
        total_gwp == total_gwp_of(mining_res, extraction_res, manufacturing_res)
        recycling_rate == GetOr(payload.top, "recycling_rate", 0)
        \* float(mining_inputs.get("ore_input_kg", 0.0))
        resource == GetD(mining_inputs, "ore_input_kg", 0)
    IN  IF mining_res.raised \/ extraction_res.raised
           \/ manufacturing_res.raised \/ FloatRaises(recycling_rate)
           \/ payload.top["primary_route_gwp_kgCO2e"].t = "bad"
           \/ FloatRaises(resource)
        THEN RaisedChain
        ELSE ChainResult(
                 mining_res, extraction_res, manufacturing_res, total_gwp,
                 total_energy_of(mining_res, extraction_res, manufacturing_res),
                 total_water_of(mining_res, extraction_res, manufacturing_res),
                 Float(recycling_rate),
                 WScale(copper_primary_route_gwp(payload.top, total_gwp),
                        Float(recycling_rate)),
                 {"global_warming_kg_co2e", "acidification_kg_so2e",
                  "eutrophication_kg_po4e", "water_depletion_m3",
                  "resource_depletion_kg_resource_eq"},
                 (ResGet(mining_res, "so2_kg") + ResGet(extraction_res, "so2_kg"))
                     * 1200,
                 ResGet(mining_res, "nox_kg") + ResGet(extraction_res, "nox_kg"),
                 Float(resource))

compute_combined_lca_steel(payload) ==
    LET mining_inputs == payload.inputs["mining"]
        extraction_inputs == payload.inputs["extraction"]
        manufacturing_inputs == payload.inputs["manufacturing"]
        route == route_lower(payload.route)
        mining_res ==
            IF NonEmpty(mining_inputs) THEN compute_steel_mining(mining_inputs)
            ELSE EmptyResult
        extraction_res ==
            IF NonEmpty(extraction_inputs)
            THEN compute_steel_extraction(extraction_inputs, route)
            ELSE EmptyResult
        manufacturing_res ==
            IF NonEmpty(manufacturing_inputs)
            THEN compute_steel_manufacturing(manufacturing_inputs)
            ELSE EmptyResult
        total_gwp == total_gwp_of(mining_res, extraction_res, manufacturing_res)
        recycling_rate == Float(GetD(payload.top, "recycling_rate", 0))
        resource == GetD(mining_inputs, "ore_input_kg", 0)
    IN  IF mining_res.raised \/ extraction_res.raised
           \/ manufacturing_res.raised \/ plain_circularity_raises(payload.top)
           \/ FloatRaises(resource)
        THEN RaisedChain
        ELSE ChainResult(
                 mining_res, extraction_res, manufacturing_res, total_gwp,
                 total_energy_of(mining_res, extraction_res, manufacturing_res),
                 total_water_of(mining_res, extraction_res, manufacturing_res),
                 recycling_rate,
                 WScale(plain_primary_route_gwp(payload.top, total_gwp),
                        recycling_rate),
                 {"global_warming_kg_co2e", "acidification_kg_so2e",
                  "eutrophication_kg_po4e", "water_depletion_m3",
                  "resource_depletion_kg_resource_eq"},
                 0, ResGet(extraction_res, "nox_kg"), Float(resource))

compute_combined_lca_tin(payload) ==
    LET mining_inputs == payload.inputs["mining"]
        extraction_inputs == payload.inputs["extraction"]
        manufacturing_inputs == payload.inputs["manufacturing"]
        mining_res ==
            IF NonEmpty(mining_inputs) THEN compute_mining_tin(mining_inputs)
            ELSE EmptyResult
        extraction_res ==
            IF NonEmpty(extraction_inputs)
            THEN compute_extraction_tin(extraction_inputs)
            ELSE EmptyResult
        manufacturing_res ==
            IF NonEmpty(manufacturing_inputs)
            THEN compute_manufacturing_tin(manufacturing_inputs)
            ELSE EmptyResult
        total_gwp == total_gwp_of(mining_res, extraction_res, manufacturing_res)
        recycling_rate == Float(GetD(payload.top, "recycling_rate", 0))
    IN  IF mining_res.raised \/ extraction_res.raised
           \/ manufacturing_res.raised \/ plain_circularity_raises(payload.top)
        THEN RaisedChain
        ELSE ChainResult(
                 mining_res, extraction_res, manufacturing_res, total_gwp,
                 total_energy_of(mining_res, extraction_res, manufacturing_res),
                 total_water_of(mining_res, extraction_res, manufacturing_res),
                 recycling_rate,
                 WScale(plain_primary_route_gwp(payload.top, total_gwp),
                        recycling_rate),
                 {"global_warming_kg_co2e", "acidification_kg_so2e",
                  "water_depletion_m3", "resource_depletion_kg_resource_eq"},
                 0, 0, 0)

compute_combined_lca_lithium(payload) ==
    LET mining_res == calc_stage_common(payload.inputs["mining"], "mining")
        extraction_res ==
            calc_stage_common(payload.inputs["extraction"], "extraction")
        manufacturing_res ==
            calc_stage_common(payload.inputs["manufacturing"], "manufacturing")
        totals_gwp ==
            mining_res.co2_kg + extraction_res.co2_kg + manufacturing_res.co2_kg
        totals_water ==
            mining_res.water_m3 + extraction_res.water_m3
            + manufacturing_res.water_m3
        total_ch4 ==
            mining_res.ch4_kg + extraction_res.ch4_kg + manufacturing_res.ch4_kg
        total_n2o ==
            mining_res.n2o_kg + extraction_res.n2o_kg + manufacturing_res.n2o_kg
        global_warming ==
            WAdd(W7(totals_gwp), WAdd(W7(25 * total_ch4), W8(298 * total_n2o)))
        total_so2 ==
            mining_res.so2_kg + extraction_res.so2_kg + manufacturing_res.so2_kg
        total_nox ==
            mining_res.nox_kg + extraction_res.nox_kg + manufacturing_res.nox_kg
    IN  ChainResult(
            mining_res, extraction_res, manufacturing_res, global_warming,
            mining_res.energy_MJ + extraction_res.energy_MJ
                + manufacturing_res.energy_MJ,
            totals_water,
            safe_float(GetD(payload.top, "recycling_rate", 0)),
            WZero,
            {"global_warming_kg_co2e", "acidification_kg_so2e",
             "eutrophication_kg_po4e", "water_depletion_m3",
             "resource_depletion_kg_resource_eq"},
            1200 * total_so2 + 7 * total_nox,
            total_nox,
            safe_float(GetD(payload.inputs["mining"], "ore_input_kg", 0)))

\* an engine whose stages would share one inputs dictionary, so that the keys
\* of the mining block leak into a non-empty extraction block
CombinationEngine_chained(metal, payload) ==
    LET leaked == [k \in Keys |->
                      IF Has(payload.inputs["extraction"], k)
                      THEN payload.inputs["extraction"][k]
                      ELSE payload.inputs["mining"][k]]
        p == IF NonEmpty(payload.inputs["extraction"])
             THEN [payload EXCEPT !.inputs["extraction"] = leaked]
             ELSE payload
    IN  CASE metal = "aluminium" -> compute_combined_lca(p)
          [] metal = "copper" -> compute_combined_lca_copper(p)
          [] metal = "steel" -> compute_combined_lca_steel(p)
          [] metal = "tin" -> compute_combined_lca_tin(p)
          [] metal = "lithium" -> compute_combined_lca_lithium(p)

\* the function a metal's endpoint calls
CombinationEngine(metal, payload) ==
    CASE metal = "aluminium" -> compute_combined_lca(payload)
      [] metal = "copper" -> compute_combined_lca_copper(payload)
      [] metal = "steel" -> compute_combined_lca_steel(payload)
      [] metal = "tin" -> compute_combined_lca_tin(payload)
      [] metal = "lithium" -> compute_combined_lca_lithium(payload)

(***************************************************************************)
(* The request space: the fields a caller can put in each stage block and  *)
(* the values a field is given.                                            *)
(***************************************************************************)
StageKeys(stage) ==
    CASE stage = "mining" ->
           {"ore_input_kg", "ore_grade_percent", "process_recovery",
            "auxiliary_materials_kg", "electricity_kWh", "fuel_diesel_L",
            "fuel_heavyOil_L", "fuel_coal_kg", "fuel_naturalGas_MJ",
            "freshwater_m3", "process_water_m3", "water_returned_m3",
            "co_product_outputs_total_kg", "grid_co2_factor", "S_content",
            "acid_recovery_factor", "process_CO2_direct"}
      [] stage = "extraction" ->
           {"ore_input_kg", "ore_grade_percent", "fraction_alumina",
            "fraction_metal", "reduction_efficiency", "process_recovery",
            "auxiliary_materials_kg", "anode_materials", "electricity_kWh",
            "fuel_diesel_L", "fuel_coal_kg", "fuel_naturalGas_MJ",
            "freshwater_m3", "process_water_m3", "impurity_fraction",
            "anode_residue_kg", "grid_co2_factor", "CO2_proc_smelting",
            "S_content", "acid_recovery_factor", "slag_factor",
            "hazardous_fraction", "process_CO2_direct",
            "process_CO2_per_kg_ore", "so2_kg_override"}
      [] stage = "manufacturing" ->
           {"metal_input_kg", "ore_input_kg", "process_yield",
            "auxiliary_materials_kg", "lubricants_kg", "electricity_kWh",
            "fuel_diesel_L", "fuel_coal_kg", "fuel_naturalGas_MJ",
            "freshwater_m3", "process_water_m3", "cooling_water_returned",
            "scrap_kg", "loss_fraction", "grid_co2_factor"}

\* quantities: 1 .. MaxQty
QtyValues == {Num(n) : n \in 1..MaxQty}
\* fractions and factors in hundredths: both endpoints, a middle value, one above range
FractionValues == {Num(0), Num(50), Num(100), Num(150)}

FieldValues(k) ==
    CASE k \in {"ore_input_kg", "electricity_kWh"} ->
           QtyValues \cup {Num(0), Null, Bad}
      [] k = "process_recovery" -> FractionValues \cup {Null, Bad}
      [] k \in {"ore_grade_percent", "reduction_efficiency", "process_yield",
                "fraction_alumina", "fraction_metal", "impurity_fraction",
                "grid_co2_factor", "S_content", "acid_recovery_factor",
                "slag_factor", "hazardous_fraction", "loss_fraction",
                "process_CO2_per_kg_ore"} -> FractionValues
      [] k \in {"process_CO2_direct", "CO2_proc_smelting"} ->
           QtyValues \cup {Num(0)}
      [] OTHER -> QtyValues

TopValues(k) ==
    CASE k = "recycling_rate" -> {Num(0), Num(30), Num(100), Null, Bad}
      [] k = "primary_route_gwp_kgCO2e" -> QtyValues \cup {Num(0), Null, Bad}

Block(fields) == [k \in Keys |-> IF k \in DOMAIN fields THEN fields[k] ELSE Absent]

Request(top, route, mining, extraction, manufacturing) ==
    [top |-> [k \in TopKeys |-> IF k \in DOMAIN top THEN top[k] ELSE Absent],
     route |-> route,
     stages |-> {s \in Stages :
                    \/ s = "mining" /\ DOMAIN mining # {}
                    \/ s = "extraction" /\ DOMAIN extraction # {}
                    \/ s = "manufacturing" /\ DOMAIN manufacturing # {}},
     inputs |-> [mining |-> Block(mining), extraction |-> Block(extraction),
                 manufacturing |-> Block(manufacturing)]]

NoFields == [k \in {} |-> Absent]

\* {"inputs": {}}
EmptyRequest == Request(NoFields, "none", NoFields, NoFields, NoFields)

\* a mining-only request with every factor of the yield in range
MiningRequest ==
    Request(NoFields, "none",
            [ore_input_kg |-> Num(2), ore_grade_percent |-> Num(50),
             process_recovery |-> Num(50)],
            NoFields, NoFields)

\* a request with all three stages and a recycling rate
ChainRequest ==
    Request([recycling_rate |-> Num(30)], "primary",
            [ore_input_kg |-> Num(2), ore_grade_percent |-> Num(50),
             electricity_kWh |-> Num(1), fuel_diesel_L |-> Num(1),
             freshwater_m3 |-> Num(1)],
            [ore_input_kg |-> Num(2), electricity_kWh |-> Num(1),
             fuel_coal_kg |-> Num(1)],
            [metal_input_kg |-> Num(1), electricity_kWh |-> Num(1),
             freshwater_m3 |-> Num(1)])

SeedRequests == {EmptyRequest, MiningRequest, ChainRequest}

(***************************************************************************)
(* HTTP responses of api_service.py.  body is the JSON content of a 200    *)
(* response; an HTTPException carries a detail message and no content      *)
(* (has_body is FALSE and body is a placeholder).  invoked: the endpoint   *)
(* called a Combination Engine.                                            *)
(***************************************************************************)
Response(endpoint, id, status, detail, invoked, has_body, body) ==
    [endpoint |-> endpoint, id |-> id, status |-> status, detail |-> detail,
     invoked |-> invoked, has_body |-> has_body, body |-> body]

\* no request has been sent
NoResponse == Response("none", "<absent>", 0, "none", FALSE, FALSE, RaisedChain)

\* raise HTTPException(status_code=status, detail=detail)
HTTPException(endpoint, id, status, detail, invoked) ==
    Response(endpoint, id, status, detail, invoked, FALSE, RaisedChain)

(***************************************************************************)
(* Calculator imports.  api_service.py imports each Combination Engine in  *)
(* a try block and keeps None when the import raises; a calculator module  *)
(* raises ImportError when it imports a name its constants module lacks.   *)
(***************************************************************************)
\* the names aluminium_constants.py defines
DefinedNames ==
    {"KWH_TO_MJ", "DIESEL_MJ_PER_L", "HFO_MJ_PER_L", "COAL_MJ_PER_KG",
     "CO2_PER_L_DIESEL", "CO2_PER_L_HFO", "CO2_PER_MJ_NATGAS",
     "CO2_PER_KG_COAL", "CH4_PER_L_DIESEL", "N2O_PER_L_DIESEL",
     "NOX_FACTOR_DIESEL", "PM_FACTOR_DIESEL", "SO2_SULFUR_CONVERSION",
     "VOC_FACTOR_AUX", "LEACHING_FACTOR", "RUNOFF_FRACTION",
     "FLUORIDE_CONC_DEFAULT"}

\* the names a metal's calculator module imports from aluminium_constants
ImportedNames(m) ==
    CASE m = "aluminium" ->
           {"KWH_TO_MJ", "L_DIESEL_MJ", "L_HEAVYOIL_MJ", "KG_COAL_MJ",
            "GRID_CO2_KG_PER_KWH", "DIESEL_CO2_KG_PER_L",
            "HEAVYOIL_CO2_KG_PER_L", "NG_CO2_KG_PER_MJ", "COAL_CO2_KG_PER_KG",
            "ANODE_CARBON_CO2_KG_PER_KG", "DIESEL_CH4_KG_PER_L",
            "DIESEL_N2O_KG_PER_L", "PM_PER_DIESEL_L", "NOX_PER_GAS_MJ",
            "PM_PER_COAL_KG", "WATER_SCARCITY_FACTOR"}
      [] m = "steel" ->
           {"KWH_TO_MJ", "L_DIESEL_MJ", "KG_COAL_MJ", "GRID_CO2_KG_PER_KWH",
            "DIESEL_CO2_KG_PER_L", "COAL_CO2_KG_PER_KG", "NG_CO2_KG_PER_MJ"}
      [] m = "tin" ->
           {"KWH_TO_MJ", "L_DIESEL_MJ", "KG_COAL_MJ", "GRID_CO2_KG_PER_KWH",
            "DIESEL_CO2_KG_PER_L", "COAL_CO2_KG_PER_KG", "NG_CO2_KG_PER_MJ",
            "DIESEL_CH4_KG_PER_L", "DIESEL_N2O_KG_PER_L", "PM_PER_DIESEL_L",
            "NOX_PER_GAS_MJ", "PM_PER_COAL_KG"}
      [] OTHER -> {}

\* the import of the metal's Combination Engine succeeded: its reference is not None
Available(m) == ImportedNames(m) \subseteq DefinedNames

(***************************************************************************)
(* The generic dispatch endpoint reads the metal identifier from the       *)
(* payload.  Identifiers are strings, or one of four marks: the key is     *)
(* absent, its value is null, its value is a JSON value that is not a      *)
(* string and is falsy in Python (0, false, [], {}), or one that is not a  *)
(* string and is truthy (5, true, ["copper"]).                             *)
(***************************************************************************)
MetalIds ==
    {"<absent>", "<null>", "<falsy>", "<truthy>", "", "  ", "copper",
     " Copper ", "LITHIUM", "aluminium", "aluminum", "steel", "tin", "gold",
     "bronze "}

\* (payload.get("metal") or "") is not a string: .strip() raises AttributeError
strip_raises(id) == id = "<truthy>"

\* s.strip().lower() on the identifiers of MetalIds
strip_lower(s) ==
    CASE s = "  " -> ""
      [] s = " Copper " -> "copper"
      [] s = "LITHIUM" -> "lithium"
      [] s = "bronze " -> "bronze"
      [] OTHER -> s

\* (payload.get("metal") or "").strip().lower()
metal_of(id) ==
    IF id \in {"<absent>", "<null>", "<falsy>"} THEN "" ELSE strip_lower(id)

\* metal in dispatch_map
InDispatchMap(name) == name \in Metals \cup {"aluminum"}

\* the metal whose Combination Engine dispatch_map names under a key
dispatch_map(name) == IF name = "aluminum" THEN "aluminium" ELSE name

\* a handler that would answer 200 with whatever the engine had produced when
\* it raised, which no endpoint of the repository does
run_calculator_partial(endpoint, id, m, request) ==
    Response(endpoint, id, 200, "ok", TRUE, TRUE, CombinationEngine(m, request))

\* the try block of an endpoint: the engine's result, or HTTP 500 when it raises
run_calculator(endpoint, id, m, request) ==
    LET r == CombinationEngine(m, request)
    IN  IF r.raised
        THEN HTTPException(endpoint, id, 500, "server error", TRUE)
        ELSE Response(endpoint, id, 200, "ok", TRUE, TRUE, r)

\* POST /<metal>/run
run_endpoint(m, request) ==
    IF ~Available(m)
    THEN HTTPException(m, "<absent>", 500, "not available", FALSE)
    ELSE run_calculator(m, "<absent>", m, request)

\* POST /metal/run; an exception raised outside the handler's try block is
\* answered by the framework with 500 Internal Server Error
run_metal(id, request) ==
    LET name == metal_of(id)
    IN  IF strip_raises(id)
        THEN HTTPException("metal", id, 500, "internal server error", FALSE)
        ELSE IF name = ""
        THEN HTTPException("metal", id, 400, "missing metal", FALSE)
        ELSE IF ~InDispatchMap(name)
        THEN HTTPException("metal", id, 400, "unsupported metal", FALSE)
        ELSE IF ~Available(dispatch_map(name))
        THEN HTTPException("metal", id, 500, "not available", FALSE)
        ELSE run_calculator("metal", id, dispatch_map(name), request)

(***************************************************************************)
(* The imputation collaborator (ml_utils.py): a cached model loaded from   *)
(* a file, and a table whose missing CO2_per_kg cells the model fills.     *)
(***************************************************************************)
\* xgb_model: the module-level cache _xgb_model; model_file: what is stored at
\* MODEL_PATH; df: the caller's table object; ml_call: the last call made
VARIABLES xgb_model, model_file, df, ml_call

ml == <<xgb_model, model_file, df, ml_call>>

\* number of rows of a table
MaxRows == 2

\* what MODEL_PATH may hold: nothing, a file joblib cannot load a model from,
\* or one of two model files
ModelFiles == {"missing", "corrupt", "model_a", "model_b"}

\* the feature columns the imputation requires (the list is empty in the source)
feature_cols == {}

MlColumns == {"CO2_per_kg", "stage"}

\* a cell of the CO2_per_kg column: a number, or missing (NaN)
CellValues == {Null, Num(1), Num(2)}

\* a table: its columns, and the cells of CO2_per_kg when it has that column
Table(cols, co2) == [columns |-> cols, co2 |-> co2]

Tables ==
    {Table(cols, <<>>) : cols \in SUBSET (MlColumns \ {"CO2_per_kg"})}
    \cup {Table(cols \cup {"CO2_per_kg"}, co2) :
              cols \in SUBSET MlColumns,
              co2 \in UNION {[1..n -> CellValues] : n \in 0..MaxRows}}

\* what model.predict answers: it raises, or gives one value per row passed
PredictOutcomes == {<<>>} \cup [1..MaxRows -> {Num(1), Num(2)}]

\* a _load_model that would read the file on every call
load_model_uncached(cache, file) ==
    IF file = "missing" THEN [returned |-> "None", cache |-> "None", read |-> FALSE]
    ELSE IF file = "corrupt" THEN [returned |-> "None", cache |-> "None", read |-> TRUE]
    ELSE [returned |-> file, cache |-> file, read |-> TRUE]

\* _load_model: the model returned, the cache afterwards, and whether the
\* file was read (joblib.load was called)
load_model(cache, file) ==
    IF cache # "None" THEN [returned |-> cache, cache |-> cache, read |-> FALSE]
    ELSE IF file = "missing" THEN [returned |-> "None", cache |-> "None", read |-> FALSE]
    ELSE IF file = "corrupt" THEN [returned |-> "None", cache |-> "None", read |-> TRUE]
    ELSE [returned |-> file, cache |-> file, read |-> TRUE]

\* df["CO2_per_kg"].isna(): the rows whose cell is missing
isna_mask(d) == {i \in 1..Len(d.co2) : d.co2[i] = Null}

\* the position of row i among the rows of the mask
MaskRank(mask, i) == Cardinality({j \in mask : j <= i})

\* df.loc[mask, "CO2_per_kg"] = y_pred
fill_mask(d, mask, y) ==
    [d EXCEPT !.co2 = [i \in 1..Len(d.co2) |->
                           IF i \in mask THEN y[MaskRank(mask, i)] ELSE d.co2[i]]]

\* an imputation that would not look at whether a model was loaded
impute_without_model_check(d, model, y) ==
    IF "CO2_per_kg" \notin d.columns THEN [df |-> d, predicted |-> FALSE]
    ELSE IF ~(feature_cols \subseteq d.columns) THEN [df |-> d, predicted |-> FALSE]
    ELSE IF isna_mask(d) = {} THEN [df |-> d, predicted |-> FALSE]
    ELSE IF y = <<>> THEN [df |-> d, predicted |-> TRUE]
    ELSE [df |-> fill_mask(d, isna_mask(d), y), predicted |-> TRUE]

\* impute_missing_values after _load_model returned model: the table returned
\* (the caller's object, changed in place) and whether predict was called;
\* y is the answer of model.predict, <<>> when it raises
impute_missing_values(d, model, y) ==
    IF model = "None" THEN [df |-> d, predicted |-> FALSE]
    ELSE IF "CO2_per_kg" \notin d.columns THEN [df |-> d, predicted |-> FALSE]
    ELSE IF ~(feature_cols \subseteq d.columns) THEN [df |-> d, predicted |-> FALSE]
    ELSE IF isna_mask(d) = {} THEN [df |-> d, predicted |-> FALSE]
    ELSE IF y = <<>> THEN [df |-> d, predicted |-> TRUE]
    ELSE [df |-> fill_mask(d, isna_mask(d), y), predicted |-> TRUE]

NoTable == Table({}, <<>>)

\* no call of ml_utils has been made
NoMlCall ==
    [op |-> "none", input |-> NoTable, cache |-> "None", file |-> "missing",
     returned |-> "None", read |-> FALSE, output |-> NoTable, predicted |-> FALSE]

\* the module has just been imported
MlInit ==
    /\ xgb_model = "None"
    /\ model_file = "missing"
    /\ df = NoTable
    /\ ml_call = NoMlCall

(***************************************************************************)
(* The inventory backend (builders.py): Brightway databases built from a   *)
(* table of rows (metal, route, stage, CO2_per_kg).                        *)
(***************************************************************************)
\* databases: bw.databases with the activities written to each database, a
\* function from the names of the existing databases to sets of activities;
\* bw_call: the last call of a builder
VARIABLES databases, bw_call

brightway == <<databases, bw_call>>

\* how many builder calls a behaviour makes
MaxBuilds == 2

required == {"metal", "route", "stage", "CO2_per_kg"}

BwMetals == {"tin"}
BwRoutes == {"eaf", "primary"}
\* the stage names of the rows; nothing keeps a table from naming a stage
\* "full_chain"
BwStages == {"mining", "extraction", "full_chain"}
BwAmounts == {1, 2}

Row(m, r, s, co2) == [metal |-> m, route |-> r, stage |-> s, CO2_per_kg |-> co2]

\* the rows of tables with every required column
FullRows == {Row(m, r, s, c) : m \in BwMetals, r \in BwRoutes, s \in BwStages, c \in BwAmounts}

\* a column that a table lacks has no cells: its field is blank in every row
BlankRow(cols, row) ==
    [k \in required |-> IF k \in cols THEN row[k] ELSE IF k = "CO2_per_kg" THEN 0 ELSE ""]

RowSeqs == UNION {[1..n -> FullRows] : n \in 0..MaxRows}

\* a DataFrame: its columns and its rows in order
Frame(cols, rows) == [columns |-> cols, rows |-> rows]

Frames ==
    {Frame(required, rows) : rows \in RowSeqs}
    \cup {Frame(cols, [i \in 1..Len(rows) |-> BlankRow(cols, rows[i])]) :
              cols \in (SUBSET required) \ {required},
              rows \in {rs \in RowSeqs : \A i \in 1..Len(rs) : rs[i] = Row("tin", "eaf", "mining", 1)}}

\* f"{metal}_{route}", f"{metal}_{stage}"
Code(a, b) == a \o "_" \o b

\* a key (database, code)
Key(db_name, code) == [db |-> db_name, code |-> code]

\* an activity as written: its key, the amount of its CO2 biosphere exchange
\* (0 and has_bio false when it has none), and the inputs of its technosphere
\* exchanges in order, each of amount 1.0
Activity(key, has_bio, co2, technosphere) ==
    [key |-> key, has_bio |-> has_bio, co2 |-> co2, technosphere |-> technosphere]

\* the outcome of a builder: the databases afterwards and whether it raised
Built(dbs, raised) == [databases |-> dbs, raised |-> raised]

\* del bw.databases[db_name]
delete_db(dbs, db_name) == [n \in (DOMAIN dbs) \ {db_name} |-> dbs[n]]

\* db.write(data): the database holds exactly the activities of data
write_db(dbs, db_name, data) ==
    [n \in (DOMAIN dbs) \cup {db_name} |-> IF n = db_name THEN data ELSE dbs[n]]

\* df_subset["stage"].unique(): the stages in order of first appearance
RECURSIVE unique(_)
unique(stages) ==
    IF stages = <<>> THEN <<>>
    ELSE LET front == unique(SubSeq(stages, 1, Len(stages) - 1))
             last == stages[Len(stages)]
         IN  IF \E i \in 1..Len(front) : front[i] = last THEN front
             ELSE Append(front, last)

stage_column(rows) == [i \in 1..Len(rows) |-> rows[i].stage]

\* the data dict after the loop over the rows: a later row of the same code
\* replaces an earlier one
RECURSIVE stage_activities(_, _, _)
stage_activities(rows, db_name, metal) ==
    IF rows = <<>> THEN {}
    ELSE LET before == stage_activities(SubSeq(rows, 1, Len(rows) - 1), db_name, metal)
             row == rows[Len(rows)]
             key == Key(db_name, Code(metal, row.stage))
         IN  {a \in before : a.key # key}
             \cup {Activity(key, TRUE, row.CO2_per_kg, <<>>)}

\* the full-chain activity: one technosphere exchange per distinct stage
full_chain_activity(rows, db_name, metal) ==
    LET names == unique(stage_column(rows))
    IN  Activity(Key(db_name, Code(metal, "full_chain")), FALSE, 0,
                 [i \in 1..Len(names) |-> Key(db_name, Code(metal, names[i]))])

\* data[full_key] = {...}: the full-chain activity takes the place of a stage
\* activity of the same key
build_data(rows, db_name, metal) ==
    LET full == full_chain_activity(rows, db_name, metal)
    IN  {a \in stage_activities(rows, db_name, metal) : a.key # full.key} \cup {full}

\* build_single_metal_db: the database of the name is deleted first; reading
\* a column the table lacks raises KeyError, in the loop over the rows or at
\* df_subset["stage"], after the deletion; otherwise the data are written
build_single_metal_db(dbs, frame, metal, route) ==
    LET db_name == Code(metal, route)
        deleted == IF db_name \in DOMAIN dbs THEN delete_db(dbs, db_name) ELSE dbs
        rows == frame.rows
    IN  IF rows # <<>> /\ ~({"stage", "CO2_per_kg"} \subseteq frame.columns)
        THEN Built(deleted, "KeyError")
        ELSE IF "stage" \notin frame.columns
        THEN Built(deleted, "KeyError")
        ELSE Built(write_db(deleted, db_name, build_data(rows, db_name, metal)),
                   "none")

\* the (metal, route) pairs in the order in which groupby yields them
KeyOrder == <<<<"tin", "eaf">>, <<"tin", "primary">>>>

\* the groups of df.groupby(["metal", "route"]) that have rows
group_keys(frame) ==
    SelectSeq(KeyOrder, LAMBDA k : \E i \in 1..Len(frame.rows) :
                            frame.rows[i].metal = k[1] /\ frame.rows[i].route = k[2])

\* the rows of one group, in the table's order
group_subset(frame, k) ==
    Frame(frame.columns,
          SelectSeq(frame.rows, LAMBDA r : r.metal = k[1] /\ r.route = k[2]))

\* the loop over the groups: each group's database is built in turn, and an
\* exception ends the loop
RECURSIVE build_groups(_, _, _)
build_groups(dbs, frame, keys) ==
    IF keys = <<>> THEN Built(dbs, "none")
    ELSE LET k == Head(keys)
             b == build_single_metal_db(dbs, group_subset(frame, k), k[1], k[2])
         IN  IF b.raised # "none" THEN b
             ELSE build_groups(b.databases, frame, Tail(keys))

\* a builder that would not look for the required columns first: grouping by
\* a column the table lacks raises KeyError
build_metal_dbs_from_df_unchecked(dbs, frame) ==
    IF ~({"metal", "route"} \subseteq frame.columns) THEN Built(dbs, "KeyError")
    ELSE build_groups(dbs, frame, group_keys(frame))

\* build_metal_dbs_from_df
build_metal_dbs_from_df(dbs, frame) ==
    LET missing == required \ frame.columns
    IN  IF missing # {} THEN Built(dbs, "ValueError")
        ELSE build_groups(dbs, frame, group_keys(frame))

NoFrame == Frame({}, <<>>)

\* no database of the project has been built
NoDatabases == [n \in {} |-> {}]

NoBwCall ==
    [op |-> "none", frame |-> NoFrame, metal |-> "", route |-> "",
     before |-> NoDatabases, raised |-> "none", builds |-> 0]

\* the project has just been set up
BwInit ==
    /\ databases = NoDatabases
    /\ bw_call = NoBwCall

(***************************************************************************)
(* The state machine: a caller builds a request from a seed by at most     *)
(* MaxEdits changes and posts it to one metal's endpoint, whose            *)
(* Combination Engine answers; then the next request starts.               *)
(***************************************************************************)
VARIABLES payload, edits, pc, metal, result, response, calls, seen, faulted
vars == <<payload, edits, pc, metal, result, response, calls, seen, faulted, ml, brightway>>

\* the service side of the state: the last response, how often the request was
\* handled, the output of an earlier request that the caller kept, and whether
\* the service has answered a calculator fault before
http == <<response, calls, seen, faulted>>

\* the response reports a calculator fault
CalculatorFault(r) == r.status = 500 /\ r.detail \in {"not available", "server error"}

\* the caller has kept no output yet
NoSeen == [metal |-> "none", payload |-> EmptyRequest, result |-> RaisedChain]

Init ==
    /\ payload \in SeedRequests
    /\ edits = 0
    /\ pc = "build"
    /\ metal = "none"
    /\ result = RaisedChain
    /\ response = NoResponse
    /\ calls = 0
    /\ seen = NoSeen
    /\ faulted = FALSE
    /\ MlInit
    /\ BwInit

Editing == pc = "build" /\ edits < MaxEdits

SetStageField(s, k, v) ==
    /\ Editing
    /\ payload.inputs[s][k] # v
    /\ payload' = [payload EXCEPT !.inputs[s][k] = v,
                                  !.stages = @ \cup {s}]
    /\ edits' = edits + 1
    /\ UNCHANGED <<pc, metal, result, http, ml, brightway>>

RemoveStageField(s, k) ==
    /\ Editing
    /\ Has(payload.inputs[s], k)
    /\ payload' = [payload EXCEPT !.inputs[s][k] = Absent]
    /\ edits' = edits + 1
    /\ UNCHANGED <<pc, metal, result, http, ml, brightway>>

DropStage(s) ==
    /\ Editing
    /\ s \in payload.stages
    /\ payload' = [payload EXCEPT !.inputs[s] = EmptyBlock,
                                  !.stages = @ \ {s}]
    /\ edits' = edits + 1
    /\ UNCHANGED <<pc, metal, result, http, ml, brightway>>

AddEmptyStage(s) ==
    /\ Editing
    /\ s \notin payload.stages
    /\ payload' = [payload EXCEPT !.stages = @ \cup {s}]
    /\ edits' = edits + 1
    /\ UNCHANGED <<pc, metal, result, http, ml, brightway>>

SetTop(k, v) ==
    /\ Editing
    /\ payload.top[k] # v
    /\ payload' = [payload EXCEPT !.top[k] = v]
    /\ edits' = edits + 1
    /\ UNCHANGED <<pc, metal, result, http, ml, brightway>>

SetRoute(r) ==
    /\ Editing
    /\ payload.route # r
    /\ payload' = [payload EXCEPT !.route = r]
    /\ edits' = edits + 1
    /\ UNCHANGED <<pc, metal, result, http, ml, brightway>>

\* an engine that would keep a running energy total in a module-level variable
\* between calls, which no calculator of the repository does
Combine_accumulating(m) ==
    /\ pc = "build"
    /\ pc' = "done"
    /\ metal' = m
    /\ result' = [CombinationEngine(m, payload) EXCEPT
                      !.totals.energy_MJ = @ + seen.result.totals.energy_MJ]
    /\ calls' = 1
    /\ UNCHANGED <<payload, edits, response, seen, faulted, ml, brightway>>

\* an engine that would complete the payload it is given in place, putting an
\* empty block where a stage is missing, which no calculator of the repository
\* does
Combine_normalising(m) ==
    /\ pc = "build"
    /\ pc' = "done"
    /\ metal' = m
    /\ result' = CombinationEngine(m, payload)
    /\ payload' = [payload EXCEPT !.stages = Stages]
    /\ calls' = 1
    /\ UNCHANGED <<edits, response, seen, faulted, ml, brightway>>

\* a metal's Combination Engine is called on the payload, as POST /<metal>/run
\* does once the engine is imported
Combine(m) ==
    /\ pc = "build"
    /\ pc' = "done"
    /\ metal' = m
    /\ result' = CombinationEngine(m, payload)
    /\ calls' = 1
    /\ UNCHANGED <<payload, edits, response, seen, faulted, ml, brightway>>

NewRequest ==
    /\ pc = "done"
    /\ payload' \in SeedRequests
    /\ edits' = 0
    /\ pc' = "build"
    /\ metal' = "none"
    /\ result' = RaisedChain
    /\ response' = NoResponse
    /\ calls' = 0
    /\ UNCHANGED <<seen, faulted, ml, brightway>>

Next ==
    \/ \E s \in Stages : \E k \in StageKeys(s) : \E v \in FieldValues(k) :
           SetStageField(s, k, v)
    \/ \E s \in Stages : \E k \in StageKeys(s) : RemoveStageField(s, k)
    \/ \E s \in Stages : DropStage(s)
    \/ \E s \in Stages : AddEmptyStage(s)
    \/ \E k \in TopKeys : \E v \in TopValues(k) \cup {Absent} : SetTop(k, v)
    \/ \E r \in Routes : SetRoute(r)
    \/ \E m \in Metals : Combine(m)
    \/ NewRequest

Spec == Init /\ [][Next]_vars

(***************************************************************************)
(* The service: a caller changes at most MaxApiEdits fields of a seed      *)
(* request and sends it, up to MaxCalls times, to a metal's endpoint or to *)
(* the generic dispatch endpoint (SpecApi), or evaluates a Combination     *)
(* Engine on it directly (SpecEngine).                                     *)
(***************************************************************************)
\* number of fields of a seed request that a request to the service changes
MaxApiEdits == 1
\* how often one request is sent or evaluated
MaxCalls == 2

ApiSetStageField(s, k, v) == edits < MaxApiEdits /\ SetStageField(s, k, v)

ApiSetTop(k, v) == edits < MaxApiEdits /\ SetTop(k, v)

\* the same engine is called again on the same payload
Recombine ==
    /\ pc = "done"
    /\ calls < MaxCalls
    /\ result' = CombinationEngine(metal, payload)
    /\ calls' = calls + 1
    /\ UNCHANGED <<payload, edits, pc, metal, response, seen, faulted, ml, brightway>>

\* POST /<metal>/run, sent for the first time or sent again unchanged
RunEndpoint(m) ==
    /\ IF pc = "build" THEN TRUE
       ELSE pc = "responded" /\ response.endpoint = m /\ calls < MaxCalls
    /\ pc' = "responded"
    /\ response' = run_endpoint(m, payload)
    /\ faulted' = (faulted \/ CalculatorFault(response'))
    /\ calls' = calls + 1
    /\ UNCHANGED <<payload, edits, metal, result, seen, ml, brightway>>

\* POST /metal/run, sent for the first time or sent again unchanged
RunMetal(id) ==
    /\ IF pc = "build" THEN TRUE
       ELSE /\ pc = "responded"
            /\ response.endpoint = "metal"
            /\ response.id = id
            /\ calls < MaxCalls
    /\ pc' = "responded"
    /\ response' = run_metal(id, payload)
    /\ faulted' = (faulted \/ CalculatorFault(response'))
    /\ calls' = calls + 1
    /\ UNCHANGED <<payload, edits, metal, result, seen, ml, brightway>>

NextRequest ==
    /\ pc = "responded"
    /\ payload' \in SeedRequests
    /\ edits' = 0
    /\ pc' = "build"
    /\ metal' = "none"
    /\ result' = RaisedChain
    /\ response' = NoResponse
    /\ calls' = 0
    /\ UNCHANGED <<seen, faulted, ml, brightway>>

\* the caller keeps the output of an unedited seed request and goes on to other requests
KeepOutput ==
    /\ pc = "done"
    /\ edits = 0
    /\ seen = NoSeen
    /\ seen' = [metal |-> metal, payload |-> payload, result |-> result]
    /\ payload' \in SeedRequests
    /\ pc' = "build"
    /\ metal' = "none"
    /\ result' = RaisedChain
    /\ calls' = 0
    /\ UNCHANGED <<edits, response, faulted, ml, brightway>>

ApiEdit ==
    \/ \E s \in Stages : \E k \in StageKeys(s) : \E v \in FieldValues(k) :
           ApiSetStageField(s, k, v)
    \/ \E k \in TopKeys : \E v \in TopValues(k) \cup {Absent} : ApiSetTop(k, v)

\* the endpoints of the service
NextApi ==
    \/ ApiEdit
    \/ \E m \in Metals : RunEndpoint(m)
    \/ \E id \in MetalIds : RunMetal(id)
    \/ NextRequest

SpecApi == Init /\ [][NextApi]_vars

\* the Combination Engines called directly, one request after another
NextEngine ==
    \/ ApiEdit
    \/ \E m \in Metals : Combine(m)
    \/ Recombine
    \/ KeepOutput
    \/ NewRequest

SpecEngine == Init /\ [][NextEngine]_vars

(***************************************************************************)
(* The imputation collaborator in use: the model file is deployed, removed *)
(* or replaced, and callers load the model and impute tables.              *)
(***************************************************************************)
\* the state of the service, which ml_utils never touches
service == <<payload, edits, pc, metal, result, http>>

\* the file at MODEL_PATH is deployed, removed or replaced
SetModelFile(f) ==
    /\ f # model_file
    /\ model_file' = f
    /\ UNCHANGED <<xgb_model, df, ml_call, service, brightway>>

\* a call of _load_model()
LoadModel ==
    LET l == load_model(xgb_model, model_file)
    IN  /\ xgb_model' = l.cache
        /\ ml_call' = [op |-> "load", input |-> df, cache |-> xgb_model,
                       file |-> model_file, returned |-> l.returned,
                       read |-> l.read, output |-> df, predicted |-> FALSE]
        /\ UNCHANGED <<model_file, df, service, brightway>>

\* a call of impute_missing_values(d), where model.predict would answer y
Impute(d, y) ==
    LET l == load_model(xgb_model, model_file)
        r == impute_missing_values(d, l.returned, y)
    IN  /\ xgb_model' = l.cache
        /\ df' = r.df
        /\ ml_call' = [op |-> "impute", input |-> d, cache |-> xgb_model,
                       file |-> model_file, returned |-> l.returned,
                       read |-> l.read, output |-> r.df,
                       predicted |-> r.predicted]
        /\ UNCHANGED <<model_file, service, brightway>>

NextMl ==
    \/ \E f \in ModelFiles : SetModelFile(f)
    \/ LoadModel
    \/ \E d \in Tables : \E y \in PredictOutcomes : Impute(d, y)

InitMl == Init /\ payload = EmptyRequest

SpecMl == InitMl /\ [][NextMl]_vars

(***************************************************************************)
(* The inventory backend in use: scripts build databases from tables, one  *)
(* call after another, up to MaxBuilds calls.                              *)
(***************************************************************************)
\* the rows of the table are those of one metal and route, as a caller that
\* filters the table before building passes them
RowsOf(frame, m, r) ==
    \A i \in 1..Len(frame.rows) :
        /\ frame.rows[i].metal \in {m, ""}
        /\ frame.rows[i].route \in {r, ""}

\* a call of build_single_metal_db(frame, m, r)
BuildSingle(frame, m, r) ==
    LET b == build_single_metal_db(databases, frame, m, r)
    IN  /\ bw_call.builds < MaxBuilds
        /\ RowsOf(frame, m, r)
        /\ databases' = b.databases
        /\ bw_call' = [op |-> "single", frame |-> frame, metal |-> m, route |-> r,
                       before |-> databases, raised |-> b.raised,
                       builds |-> bw_call.builds + 1]
        /\ UNCHANGED <<service, ml>>

\* a call of build_metal_dbs_from_df(frame)
BuildFromDf(frame) ==
    LET b == build_metal_dbs_from_df(databases, frame)
    IN  /\ bw_call.builds < MaxBuilds
        /\ databases' = b.databases
        /\ bw_call' = [op |-> "from_df", frame |-> frame, metal |-> "", route |-> "",
                       before |-> databases, raised |-> b.raised,
                       builds |-> bw_call.builds + 1]
        /\ UNCHANGED <<service, ml>>

NextBw ==
    \/ \E frame \in Frames : \E m \in BwMetals : \E r \in BwRoutes :
           BuildSingle(frame, m, r)
    \/ \E frame \in Frames : BuildFromDf(frame)

SpecBw == InitMl /\ [][NextBw]_vars

(***************************************************************************)
(* Properties of the answers.                                              *)
(***************************************************************************)
\* the endpoint has answered with a ChainResult
Answered == pc = "done" /\ ~result.raised

\* the sum of a StageResult field over the stages whose block is present and non-empty
SumOfPresent(k) ==
    LET part(s) ==
            IF NonEmpty(payload.inputs[s]) THEN ResGet(result.breakdown[s], k)
            ELSE 0
    IN  part("mining") + part("extraction") + part("manufacturing")

GwpOfPresent ==
    LET part(s) ==
            IF NonEmpty(payload.inputs[s]) THEN ResGwp(result.breakdown[s])
            ELSE WZero
    IN  WAdd(part("mining"), WAdd(part("extraction"), part("manufacturing")))

\* C1: for every metal and payload, totals.gwp_kgCO2e, totals.energy_MJ and
\* totals.water_m3 each equal the sum, over the stages whose input block is
\* present and non-empty, of the field of the same name in that stage's
\* StageResult in breakdown (a StageResult without the field adds nothing).
C1_TotalsAreStageSums ==
    Answered =>
        /\ result.totals.gwp_kgCO2e = GwpOfPresent
        /\ result.totals.energy_MJ = SumOfPresent("energy_MJ")
        /\ result.totals.water_m3 = SumOfPresent("water_m3")

\* C2: for every metal and stage, an absent or empty input block gives the
\* empty record {} as the stage's breakdown entry, not a zero-filled
\* StageResult.
C2_EmptyBlockEmptyEntry ==
    Answered =>
        \A s \in Stages :
            ~NonEmpty(payload.inputs[s]) => result.breakdown[s] = EmptyResult

\* C3: for every metal, with no primary_route_gwp_kgCO2e in the payload,
\* avoided_primary_co2e_kg = recycling_rate * totals.gwp_kgCO2e of the same
\* response.
C3_AvoidedSelfBaseline ==
    Answered /\ ~Has(payload.top, "primary_route_gwp_kgCO2e") =>
        result.circularity.avoided_primary_co2e_kg
            = WScale(result.totals.gwp_kgCO2e,
                     result.circularity.recycling_rate)

\* C4: for every metal, with a numeric primary_route_gwp_kgCO2e in the
\* payload (0 included), avoided_primary_co2e_kg = recycling_rate * that
\* baseline; the chain total is not used.
C4_AvoidedSuppliedBaseline ==
    Answered /\ payload.top["primary_route_gwp_kgCO2e"].t = "num" =>
        result.circularity.avoided_primary_co2e_kg
            = WScale(WKg(payload.top["primary_route_gwp_kgCO2e"].v),
                     result.circularity.recycling_rate)

\* the mining block gives ore, a grade in [0,100] and a recovery in [0,1]
MiningFactorsInRange ==
    LET mining == payload.inputs["mining"]
    IN  /\ mining["ore_input_kg"].t = "num"
        /\ mining["ore_grade_percent"].t = "num"
        /\ mining["ore_grade_percent"].v <= 100
        /\ mining["process_recovery"].t = "num"
        /\ mining["process_recovery"].v <= 100

\* C5: for every metal's mining stage and in-range ore, grade and recovery
\* (endpoints 0 included), yield_metal_t
\* = ore_input_kg * (ore_grade_percent/100) * process_recovery / 1000.
C5_MiningYieldFormula ==
    Answered /\ MiningFactorsInRange =>
        result.breakdown["mining"].yield_metal_t
            = payload.inputs["mining"]["ore_input_kg"].v
              * payload.inputs["mining"]["ore_grade_percent"].v
              * payload.inputs["mining"]["process_recovery"].v

\* the in-range values of a yield factor above its value in the payload
RaisedValues(k) ==
    {v \in FieldValues(k) :
        /\ v.t = "num"
        /\ v.v > payload.inputs["mining"][k].v
        /\ (k = "ore_input_kg" \/ v.v <= 100)}

\* C6: for every metal's mining stage, raising one of ore_input_kg,
\* ore_grade_percent, process_recovery within its range, the other two held
\* fixed in range, never lowers yield_metal_t.
C6_MiningYieldMonotonic ==
    Answered /\ MiningFactorsInRange =>
        \A k \in {"ore_input_kg", "ore_grade_percent", "process_recovery"} :
            \A v \in RaisedValues(k) :
                CombinationEngine(
                    metal, [payload EXCEPT !.inputs["mining"][k] = v]
                ).breakdown["mining"].yield_metal_t
                    >= result.breakdown["mining"].yield_metal_t

\* C7: waste_solid_kg of every StageResult of every metal and stage is >= 0,
\* out-of-range fractions included.
C7_WasteSolidNonNegative ==
    Answered => \A s \in Stages : result.breakdown[s].waste_solid_kg >= 0

\* the request-level fields are absent or numbers
TopWellFormed == \A k \in TopKeys : payload.top[k].t \in {"absent", "num"}

\* C8: no stage calculator and no Combination Engine of any metal raises on
\* a stage field that is missing, null or not coercible to a number: a
\* result is returned.
C8_NeverRaisesOnStageField ==
    pc = "done" /\ TopWellFormed => ~result.raised

\* the extraction block names no energy carrier, so its CO2 is process CO2
NoExtractionEnergy ==
    \A k \in {"electricity_kWh", "fuel_diesel_L", "fuel_coal_kg",
              "fuel_naturalGas_MJ"} :
        ~Has(payload.inputs["extraction"], k)

\* C9: a defaulted field explicitly supplied as 0 is used as 0, the default
\* is not substituted: a process_recovery of 0 in the mining block and a
\* reduction_efficiency of 0 in the extraction block give a yield of 0, and
\* where the extraction formula reads process_CO2_direct (steel, lithium) a
\* process_CO2_direct of 0 gives no process CO2.
C9_ExplicitZeroIsUsed ==
    Answered =>
        /\ payload.inputs["mining"]["process_recovery"] = Num(0)
               => result.breakdown["mining"].yield_metal_t = 0
        /\ payload.inputs["extraction"]["reduction_efficiency"] = Num(0)
               => result.breakdown["extraction"].yield_metal_t = 0
        /\ /\ metal \in {"steel", "lithium"}
           /\ payload.inputs["extraction"]["process_CO2_direct"] = Num(0)
           /\ NoExtractionEnergy
           => result.breakdown["extraction"].co2_kg = 0

\* the CO2 a stage's electricity adds: the stage's co2_kg less its co2_kg
\* when the same request has no electricity_kWh in that block
ElectricityCO2(s) ==
    ResGet(result.breakdown[s], "co2_kg")
    - ResGet(CombinationEngine(
                 metal, [payload EXCEPT !.inputs[s]["electricity_kWh"] = Absent]
             ).breakdown[s], "co2_kg")

\* C10: in every metal and stage a grid emission factor supplied in the
\* stage block determines the electricity CO2:
\* co2 from electricity = electricity_kWh * supplied factor.
C10_SuppliedGridFactorUsed ==
    Answered =>
        \A s \in Stages :
            /\ payload.inputs[s]["electricity_kWh"].t = "num"
            /\ payload.inputs[s]["grid_co2_factor"].t = "num"
            => ElectricityCO2(s)
                   = payload.inputs[s]["electricity_kWh"].v
                     * payload.inputs[s]["grid_co2_factor"].v * 100000

(***************************************************************************)
(* C11.  Determinism: for every metal, two invocations of the Combination  *)
(* Engine (and so of the stage calculators, whose results are its          *)
(* breakdown) with identical payloads return identical outputs, whatever   *)
(* other requests were evaluated before or between them.  A repeated call  *)
(* leaves the output as it was, and an evaluation of the metal and payload *)
(* whose output the caller kept gives the kept output again.               *)
(***************************************************************************)
SameAsKept == seen # NoSeen /\ seen.metal = metal /\ seen.payload = payload

FuelKeys ==
    {"electricity_kWh", "fuel_diesel_L", "fuel_heavyOil_L", "fuel_coal_kg",
     "fuel_naturalGas_MJ"}

\* the energy conversion factor the metal's module gives a fuel, unit 1e-1 MJ
\* per unit of fuel (heavy fuel oil: the one value any module gives it)
ConversionFactor(m, k) ==
    CASE k = "electricity_kWh" -> 36
      [] k = "fuel_diesel_L" -> 386
      [] k = "fuel_heavyOil_L" -> 409
      [] k = "fuel_coal_kg" -> IF m = "lithium" THEN 293 ELSE 260
      [] k = "fuel_naturalGas_MJ" -> 10

\* every fuel field of the block is absent or a number
FuelsWellFormed(block) == \A k \in FuelKeys : block[k].t \in {"absent", "num"}

FuelEnergy(m, block) ==
    LET term(k) == IF Has(block, k) THEN block[k].v * ConversionFactor(m, k) ELSE 0
    IN  term("electricity_kWh") + term("fuel_diesel_L") + term("fuel_heavyOil_L")
        + term("fuel_coal_kg") + term("fuel_naturalGas_MJ")

\* C12: in every metal and stage, energy_MJ is the sum, over the fuels present
\* in the stage block among electricity, diesel, heavy fuel oil, coal and
\* natural gas, of quantity * the fuel's conversion factor; an absent fuel
\* adds 0.
C12_EnergyIsSumOfFuels ==
    Answered =>
        \A s \in Stages :
            /\ NonEmpty(payload.inputs[s])
            /\ FuelsWellFormed(payload.inputs[s])
            => ResGet(result.breakdown[s], "energy_MJ")
                   = FuelEnergy(metal, payload.inputs[s])

(***************************************************************************)
(* C13.  Water.                                                            *)
(***************************************************************************)
WaterKeys == {"freshwater_m3", "process_water_m3", "water_returned_m3"}

\* the three water fields are absent or numbers, and the block names no
\* other returned water
WaterWellFormed(block) ==
    /\ \A k \in WaterKeys : block[k].t \in {"absent", "num"}
    /\ ~Has(block, "cooling_water_returned")

NetWater(block) ==
    LET q(k) == IF Has(block, k) THEN block[k].v ELSE 0
    IN  q("freshwater_m3") + q("process_water_m3") - q("water_returned_m3")

\* C13: in every metal and every stage that reports water_m3,
\* water_m3 = freshwater_m3 + process_water_m3 - water_returned_m3, not
\* clamped: negative when more water is returned than drawn.
C13_WaterIsNetOfReturned ==
    Answered =>
        \A s \in Stages :
            /\ NonEmpty(payload.inputs[s])
            /\ "water_m3" \in result.breakdown[s].keys
            /\ WaterWellFormed(payload.inputs[s])
            => result.breakdown[s].water_m3 = NetWater(payload.inputs[s])

(***************************************************************************)
(* C14.  CO2 of the fuels.                                                 *)
(***************************************************************************)
\* what a fuel adds to a field of a stage's result: the field less its value
\* when the same request gives the quantity 0 for that fuel
FuelShare(s, k, field) ==
    ResGet(result.breakdown[s], field)
    - ResGet(CombinationEngine(
                 metal, [payload EXCEPT !.inputs[s][k] = Num(0)]
             ).breakdown[s], field)

\* C14: in every metal and stage co2_kg is the sum of quantity * CO2 factor
\* over the fuels and electricity of the block, plus the direct process CO2:
\* every fuel that is counted in energy_MJ also adds its CO2 to co2_kg (here
\* for blocks that leave the grid factor to the calculator).
C14_CountedFuelEmitsCO2 ==
    Answered =>
        \A s \in Stages : \A k \in FuelKeys :
            /\ payload.inputs[s][k].t = "num"
            /\ payload.inputs[s][k].v > 0
            /\ ~Has(payload.inputs[s], "grid_co2_factor")
            /\ FuelShare(s, k, "energy_MJ") > 0
            => FuelShare(s, k, "co2_kg") > 0

(***************************************************************************)
(* C15.  One pair of 100-year multipliers.                                 *)
(***************************************************************************)
\* the whole-number multiplier pairs <<GWP_CH4, GWP_N2O>> looked at; every
\* pair a calculator applies, and every published whole-number pair, is one
GwpPairs == (20..40) \X (250..320)

\* the CO2, CH4 and N2O masses a chain result converts to its CO2-equivalent:
\* those of the mining stage, which reports its own gwp_kgCO2e, and in
\* lithium, which converts only in the engine, those of the three stages
ConvertedGas(m, r, gas) ==
    IF m = "lithium"
    THEN r.breakdown["mining"][gas] + r.breakdown["extraction"][gas]
         + r.breakdown["manufacturing"][gas]
    ELSE r.breakdown["mining"][gas]

ConvertedGwp(m, r) ==
    IF m = "lithium" THEN r.totals.gwp_kgCO2e
    ELSE r.breakdown["mining"].gwp_kgCO2e

\* the chain result converts some CH4 and N2O
Converts(m, r) ==
    /\ ~r.raised
    /\ m = "lithium" \/ "gwp_kgCO2e" \in r.breakdown["mining"].keys
    /\ ConvertedGas(m, r, "ch4_kg") > 0
    /\ ConvertedGas(m, r, "n2o_kg") > 0

\* the CO2-equivalent of the result is what the pair gives
PairFits(m, r, pair) ==
    ConvertedGwp(m, r)
        = WAdd(W7(ConvertedGas(m, r, "co2_kg")),
               WAdd(W7(ConvertedGas(m, r, "ch4_kg") * pair[1]),
                    W8(ConvertedGas(m, r, "n2o_kg") * pair[2])))

\* C15: one canonical pair (GWP_CH4, GWP_N2O) is applied uniformly: the
\* results of two metals' calculators for the same payload, both converting
\* CH4 and N2O to CO2-equivalent, are given by one and the same pair.
C15_OneMultiplierPair ==
    /\ pc = "done"
    /\ seen.payload = payload
    /\ Converts(metal, result)
    /\ Converts(seen.metal, seen.result)
    => \E pair \in GwpPairs :
           PairFits(metal, result, pair) /\ PairFits(seen.metal, seen.result, pair)

(***************************************************************************)
(* C16.  Material balance.                                                 *)
(***************************************************************************)
\* the primary input mass of a stage block
PrimaryInputKey(s) == IF s = "manufacturing" THEN "metal_input_kg" ELSE "ore_input_kg"

MaterialInput(s, block) ==
    LET q(k) == IF Has(block, k) THEN block[k].v ELSE 0
    IN  q(PrimaryInputKey(s)) + q("auxiliary_materials_kg")

\* C16: in every metal and stage, total_material_input_kg = primary input
\* mass (ore_input_kg, or metal_input_kg in manufacturing) +
\* auxiliary_materials_kg of the stage block.
C16_MaterialInputIsPrimaryPlusAux ==
    Answered =>
        \A s \in Stages :
            /\ NonEmpty(payload.inputs[s])
            /\ \A k \in {PrimaryInputKey(s), "auxiliary_materials_kg"} :
                   payload.inputs[s][k].t \in {"absent", "num"}
            => ResGet(result.breakdown[s], "total_material_input_kg")
                   = MaterialInput(s, payload.inputs[s])

(***************************************************************************)
(* C17.  The avoided-burden credit as a function of the recycling rate.    *)
(***************************************************************************)
\* recycling rates the credit is compared at, unit 1e-2
Rates == {0, 15, 30, 60, 100}

\* avoided_primary_co2e_kg of the same metal and payload at another rate
AvoidedAt(r) ==
    CombinationEngine(
        metal, [payload EXCEPT !.top["recycling_rate"] = Num(r)]
    ).circularity.avoided_primary_co2e_kg

\* the request gives a recycling rate, and a number or nothing as baseline
RateGiven ==
    /\ payload.top["recycling_rate"].t = "num"
    /\ payload.top["primary_route_gwp_kgCO2e"].t \in {"absent", "num"}

\* C17: for every metal and a fixed rest of the payload (all inputs are
\* non-negative), avoided_primary_co2e_kg is linear in recycling_rate (the
\* credit at a rate is the rate times the credit at the unit rate 0.01,
\* doubling the rate doubles the credit), never smaller at a larger rate,
\* and 0 at rate 0.
C17_AvoidedLinearInRate ==
    Answered /\ RateGiven =>
        LET r == payload.top["recycling_rate"].v
            a == result.circularity.avoided_primary_co2e_kg
        IN  /\ AvoidedAt(r) = a
            /\ AvoidedAt(0) = WZero
            /\ AvoidedAt(2 * r) = WScale(a, 2)
            /\ a = WScale(AvoidedAt(1), r)
            /\ \A q \in Rates :
                   /\ AvoidedAt(q) = WScale(AvoidedAt(1), q)
                   /\ q <= r => WLeq(AvoidedAt(q), a)
                   /\ r <= q => WLeq(a, AvoidedAt(q))

\* a chain was answered with a positive credit at a positive rate
C17_Witness ==
    /\ Answered
    /\ RateGiven
    /\ payload.top["recycling_rate"].v = 30
    /\ result.circularity.avoided_primary_co2e_kg # WZero
    /\ WLeq(WZero, result.circularity.avoided_primary_co2e_kg)

(***************************************************************************)
(* C18.  Unknown metal at the generic dispatch endpoint.                   *)
(***************************************************************************)
\* the generic dispatch endpoint has responded
Dispatched == pc = "responded" /\ response.endpoint = "metal"

\* the identifier of the request is missing, or is not a key of the dispatch
\* table once trimmed and lower-cased
NotInDispatchTable(id) ==
    \/ id \in {"<absent>", "<null>", "<falsy>", "<truthy>"}
    \/ ~InDispatchMap(strip_lower(id))

\* C18: a request to the generic dispatch endpoint whose metal identifier
\* (after trimming and lower-casing) is missing or not in the dispatch table
\* is rejected with HTTP 400, and no calculator is invoked for it.
C18_UnknownMetalRejected ==
    Dispatched /\ NotInDispatchTable(response.id) =>
        response.status = 400 /\ ~response.invoked

(***************************************************************************)
(* C19.  Calculator faults.                                                *)
(***************************************************************************)
\* the request reached the point where the endpoint looks at its calculator
ReachedCalculator ==
    /\ pc = "responded"
    /\ response.endpoint = "metal" =>
           ~strip_raises(response.id) /\ InDispatchMap(metal_of(response.id))

\* the metal whose calculator the responding endpoint uses
TargetMetal ==
    IF response.endpoint = "metal" THEN dispatch_map(metal_of(response.id))
    ELSE response.endpoint

\* the calculator of the request is unavailable, or raises on the payload
CalculatorFails ==
    ~Available(TargetMetal) \/ CombinationEngine(TargetMetal, payload).raised

\* C19: when the metal's calculator is unavailable or raises, the request
\* ends in HTTP 500 with a descriptive message and no result body; every
\* response is either a complete ChainResult with status 200 or an error
\* without a body; and a request whose calculator does not fail is answered
\* 200 whether or not the service answered a fault before.
C19_FaultIsAllOrNothing ==
    pc = "responded" =>
        /\ response.status = 200 =>
               /\ response.has_body
               /\ ~response.body.raised
               /\ response.body = CombinationEngine(TargetMetal, payload)
        /\ response.status # 200 =>
               response.status \in {400, 500} /\ ~response.has_body
        /\ ReachedCalculator /\ CalculatorFails =>
               /\ response.status = 500
               /\ response.detail \in {"not available", "server error"}
               /\ ~response.has_body
        /\ ReachedCalculator /\ ~CalculatorFails => response.status = 200

\* after an earlier calculator fault, a calculator raised and the request was
\* answered 500, and was answered 500 again when sent again
C19_Witness ==
    /\ pc = "responded"
    /\ faulted
    /\ calls = MaxCalls
    /\ response.status = 500
    /\ response.detail = "server error"
    /\ response.invoked

(***************************************************************************)
(* C20.  Availability of the five calculators.                             *)
(***************************************************************************)
\* C20: each of the five supported metals resolves to an available
\* Combination Engine: every name its calculator module imports from the
\* shared constants module is defined there, so a request for aluminium,
\* copper, steel, tin or lithium is never answered with the 'calculator not
\* available' server error.
C20_EveryCalculatorAvailable ==
    ReachedCalculator =>
        /\ ImportedNames(TargetMetal) \subseteq DefinedNames
        /\ response.detail # "not available"

(***************************************************************************)
(* C21.  Ambiguous stage inference.                                        *)
(***************************************************************************)
\* the stage blocks of the payload that hold at least one field; no request
\* of the model carries a "stage" key, and no endpoint reads one
NonEmptyStages == {s \in Stages : s \in payload.stages /\ NonEmpty(payload.inputs[s])}

\* the request names no stage and holds more than one non-empty stage block
AmbiguousStage == Cardinality(NonEmptyStages) > 1

ImputedWithoutMeans ==
    /\ ml_call.op = "impute"
    /\ ml_call.returned = "None" \/ ~(feature_cols \subseteq ml_call.input.columns)

TotalNOx == SumOfPresent("nox_kg")

\* C23: for every metal, lcia_results.eutrophication_kg_po4e is present in the
\* response and equals 0.1 times the total NOx of the mining, extraction and
\* manufacturing stages (the indicator is kept in tenths of the NOx unit, so
\* 0.1 x NOx is the same number as the NOx sum).
C23_EutrophicationIsTenthOfNOx ==
    Answered =>
        /\ "eutrophication_kg_po4e" \in result.lcia_keys
        /\ result.lcia_results.eutrophication_kg_po4e = TotalNOx

(***************************************************************************)
(* C24.  Resource depletion.                                               *)
(***************************************************************************)
\* ore_input_kg of the mining block
MiningOre == payload.inputs["mining"]["ore_input_kg"]

\* C24: for every metal, lcia_results.resource_depletion_kg_resource_eq equals
\* the raw ore input mass: the ore_input_kg of the mining stage block when it
\* is a number, and 0 when that block or field is absent.
C24_ResourceDepletionIsOreInput ==
    Answered /\ MiningOre.t \in {"absent", "num"} =>
        /\ "resource_depletion_kg_resource_eq" \in result.lcia_keys
        /\ result.lcia_results.resource_depletion_kg_resource_eq =
               (IF MiningOre.t = "num" THEN MiningOre.v ELSE 0)

(***************************************************************************)
(* C25.  No ordering dependency between stages.                            *)
(***************************************************************************)
\* the request with every stage block but that of stage s removed; the
\* request-level fields stay
OnlyStage(s) ==
    [payload EXCEPT !.inputs = [t \in Stages |->
                                    IF t = s THEN payload.inputs[t] ELSE EmptyBlock],
                    !.stages = @ \cap {s}]

\* the breakdown entry of stage s when the engine is given that stage alone
StageAlone(s) == CombinationEngine(metal, OnlyStage(s)).breakdown[s]

EngineCalled == pc' = "done" /\ calls' > calls

FromDfLacksColumn ==
    /\ bw_call.op = "from_df"
    /\ ~({"metal", "route", "stage", "CO2_per_kg"} \subseteq bw_call.frame.columns)

\* C27: build_metal_dbs_from_df raises ValueError when any of the required
\* columns metal, route, stage, CO2_per_kg is missing from the table, and it
\* does so before any database is deleted or written: the existing databases
\* and their activities are as they were before the call.
C27_MissingColumnRaisesFirst ==
    FromDfLacksColumn =>
        /\ bw_call.raised = "ValueError"
        /\ databases = bw_call.before

\* a table with rows but without the CO2_per_kg column was refused while a
\* database that its rows name existed
C27_Witness ==
    /\ FromDfLacksColumn
    /\ bw_call.frame.columns = {"metal", "route", "stage"}
    /\ bw_call.frame.rows # <<>>
    /\ bw_call.raised = "ValueError"
    /\ Code("tin", "eaf") \in DOMAIN bw_call.before
    /\ databases = bw_call.before

(***************************************************************************)
(* C28.  build_single_metal_db replaces the database.                      *)
(***************************************************************************)
\* the last call was build_single_metal_db and it returned
BuiltSingle == bw_call.op = "single" /\ bw_call.raised = "none"

\* the name of the database of the last call
BuiltName == Code(bw_call.metal, bw_call.route)

\* the distinct stages of the rows given to the last call
GivenStages == {bw_call.frame.rows[i].stage : i \in 1..Len(bw_call.frame.rows)}

\* the key of the activity of a stage, and of the full-chain activity
StageKey(s) == Key(BuiltName, Code(bw_call.metal, s))
FullKey == Key(BuiltName, Code(bw_call.metal, "full_chain"))

\* a is an activity that the given rows describe for stage s
FromGivenRows(a, s) ==
    /\ a.key = StageKey(s)
    /\ a.has_bio
    /\ \E i \in 1..Len(bw_call.frame.rows) :
           /\ bw_call.frame.rows[i].stage = s
           /\ bw_call.frame.rows[i].CO2_per_kg = a.co2

\* a is a full-chain activity with exactly one technosphere exchange to each
\* distinct stage activity and no other
FullChainOfGivenRows(a) ==
    /\ a.key = FullKey
    /\ Len(a.technosphere) = Cardinality(GivenStages)
    /\ \A s \in GivenStages :
           Cardinality({i \in 1..Len(a.technosphere) : a.technosphere[i] = StageKey(s)}) = 1

\* C28: build_single_metal_db replaces rather than merges: after it returns,
\* the database named '<metal>_<route>' contains exactly one activity coded
\* '<metal>_<stage>' per distinct stage of the given rows plus one
\* '<metal>_full_chain' activity that has exactly one technosphere exchange of
\* amount 1.0 to each distinct stage activity, and no activity from an earlier
\* build of the same database; and building again with the same rows gives
\* the same database.
C28_BuildReplacesDatabase ==
    BuiltSingle =>
        /\ BuiltName \in DOMAIN databases
        /\ \A s \in GivenStages :
               Cardinality({a \in databases[BuiltName] : FromGivenRows(a, s)}) = 1
        /\ Cardinality({a \in databases[BuiltName] : FullChainOfGivenRows(a)}) = 1
        /\ Cardinality(databases[BuiltName]) = Cardinality(GivenStages) + 1
        /\ build_single_metal_db(databases, bw_call.frame, bw_call.metal,
                                 bw_call.route).databases = databases

(***************************************************************************)
(* C29.  Slag of the steel extraction stage.                               *)
(***************************************************************************)
\* the request route, compared without regard to case, contains 'eaf'
RouteNamesEAF == payload.route \in {"EAF", "Scrap-EAF"}

\* the slag factor the claim describes, in percent
ClaimedSlagFactor ==
    IF Has(payload.inputs["extraction"], "slag_factor")
    THEN payload.inputs["extraction"]["slag_factor"].v
    ELSE IF RouteNamesEAF THEN 12 ELSE 25

\* the ore input of the extraction block, 0 when absent
ExtractionOre ==
    IF Has(payload.inputs["extraction"], "ore_input_kg")
    THEN payload.inputs["extraction"]["ore_input_kg"].v
    ELSE 0

\* steel's extraction stage was calculated
SteelExtractionDone ==
    Answered /\ metal = "steel" /\ NonEmpty(payload.inputs["extraction"])

\* C29: in the steel extraction stage, waste_solid_kg = ore_input_kg x
\* slag_factor, where slag_factor is the stage block's explicit slag_factor
\* when supplied, else 0.12 when the request route, compared
\* case-insensitively, contains 'eaf', else 0.25 (also when route is absent);
\* and waste_hazardous_kg = 0.05 x waste_solid_kg.  (waste_solid_kg is kept in
\* 1e-4 kg and the factor in percent; waste_hazardous_kg in 1e-6 kg.)
C29_SteelSlagByRoute ==
    SteelExtractionDone =>
        /\ result.breakdown["extraction"].waste_solid_kg
               = ExtractionOre * ClaimedSlagFactor * 100
        /\ result.breakdown["extraction"].waste_hazardous_kg
               = 5 * result.breakdown["extraction"].waste_solid_kg

\* steel's extraction stage was calculated for a route that contains 'eaf' in
\* another case, with ore and without an explicit slag factor
C29_Witness ==
    /\ SteelExtractionDone
    /\ payload.route = "Scrap-EAF"
    /\ ~Has(payload.inputs["extraction"], "slag_factor")
    /\ ExtractionOre > 0
    /\ result.breakdown["extraction"].waste_solid_kg = ExtractionOre * 1200

(***************************************************************************)
(* C30.  The imputation model is loaded at most once.                      *)
(***************************************************************************)
\* this step is a call that runs _load_model: a call of _load_model itself
\* or of impute_missing_values
LoadCalled == ml_call' # ml_call \/ xgb_model' # xgb_model

\* C30: the imputation model is loaded at most once: once a call of
\* _load_model has loaded a model, every later call returns that same cached
\* model without reading the model file again, whatever the file holds by
\* then; while the file is missing or loading fails the cache stays empty and
\* None is returned, and the next call attempts the load again, so that it
\* loads the model as soon as the file can be loaded.
C30_ModelLoadedAtMostOnce ==
    [][/\ xgb_model # "None" =>
              /\ xgb_model' = xgb_model
              /\ LoadCalled => ml_call'.returned = xgb_model /\ ~ml_call'.read
       /\ xgb_model = "None" /\ LoadCalled =>
              /\ ml_call'.file \in {"missing", "corrupt"} =>
                     /\ xgb_model' = "None"
                     /\ ml_call'.returned = "None"
                     /\ ml_call'.read = (ml_call'.file = "corrupt")
              /\ ml_call'.file \in {"model_a", "model_b"} =>
                     /\ ml_call'.read
                     /\ xgb_model' = ml_call'.file
                     /\ ml_call'.returned = ml_call'.file]_vars

\* a model was loaded and cached, the file was then replaced by another
\* model, and a later call still returned the cached model without a read
C30_Witness ==
    /\ ml_call.op = "load"
    /\ ml_call.cache = "model_a"
    /\ ml_call.file = "model_b"
    /\ ml_call.returned = "model_a"
    /\ ~ml_call.read
    /\ xgb_model = "model_a"

=============================================================================
